---- MODULE Spec2Model ----
(***************************************************************************)
(* State-machine model of tally, a command-line time tracker.              *)
(*                                                                         *)
(* The store is the SQLite database of internal/db/db.go: the entries      *)
(* table, the pauses table, the projects table and the tags table.  Every  *)
(* command invocation runs rootCmd.PersistentPreRunE (the sleep check) and *)
(* then the command's handler; "phase" records where the invocation        *)
(* stands.  A command that waits for its user (tally edit in the editor,   *)
(* tally delete at its prompt) is kept in "invocations" until the user     *)
(* is done, and other invocations run meanwhile.                           *)
(*                                                                         *)
(* Time is an integer count of half minutes (one unit = 30 s), so that     *)
(* time.Minute is 2 units.  Every instant of the model is a whole number   *)
(* of units; the "2006-01-02 15:04:05" layout used by the edit document    *)
(* represents such instants exactly.                                       *)
(***************************************************************************)
EXTENDS Integers, Sequences, FiniteSets, TLC

\* ------------------------------------------------------------------ bounds
MaxTime == 3
MaxEntries == 3
MaxPauses == 3
MaxEvents == 2
MaxEdits == 1
MaxCommands == 3
MaxListed == 2
MaxLifecycle == 6  \* commands invoked in a run of start, pause, resume, stop
MaxStream == 3     \* events in a power log handed to the sleep check alone

\* command invocations running side by side
MaxInvocations == 2

\* matched lines of a power log handed to the pairing alone, and its last time
MaxPairing == 4
MaxPairingTime == 5

\* ------------------------------------------------------- program constants
\* time.Minute, in units of 30 s
Minute == 2

\* a nil *time.Time / SQL NULL
NoTime == -1
\* the zero time.Time{}, before every instant of the model
ZeroTime == -1
\* a timestamp string that time.ParseInLocation rejects
BadTime == -2
\* an empty pause id in an edit document (json "id": "")
NoId == 0

StatusRunning == "running"
StatusPaused == "paused"
StatusStopped == "stopped"

ReasonManual == "Manual"
ReasonDisplayOff == "Display off"
ReasonSystemSleep == "System sleep"

Times == 0..MaxTime
EntryIds == 1..MaxEntries

ProjectNames == {"work", "personal"}

VARIABLES
    entries,     \* entries table: entry id -> row
    pauses,      \* pauses table: pause id -> row
    projects,    \* projects table: the set of project names
    tagsTable,   \* tags table: the set of tag names
    now,         \* the wall clock, time.Now()
    entrySeq,    \* how many entry ids model.NewULID has handed out
    pauseSeq,    \* how many pause ids model.NewULID has handed out
    edits,       \* how many edit documents have been submitted
    commands,    \* how many commands have been invoked
    phase,       \* "idle", "run" (pre-run hook done) or "prompt" (reopen asks y/N)
    pending,     \* what reopenEntry holds while it waits at the prompt
    last,        \* the last handler that ran and how it ended
    shown,       \* the duration printStatus last printed, for which entry, when
    invocations  \* commands running side by side: what each has read, not yet written

vars == <<entries, pauses, projects, tagsTable, now, entrySeq, pauseSeq,
          edits, commands, phase, pending, last, shown, invocations>>

\* ------------------------------------------------------------------ helpers
Max(a, b) == IF a >= b THEN a ELSE b

NoPending == [entry |-> 0, at |-> NoTime, end |-> NoTime]

NoShown == [entry |-> 0, at |-> NoTime, duration |-> 0]

\* what a handler leaves behind: its command, how it ended ("error": it returned
\* an error; anything else: it returned nil), the entry it dealt with, the
\* line it read at a prompt and the time flags it was given
Last(op, res, id) ==
    [op |-> op, res |-> res, id |-> id, input |-> "", args |-> <<>>]

\* the highest identifier in use: in the table, or handed out before (seq)
RECURSIVE HighId(_, _)
HighId(table, seq) ==
    IF DOMAIN table = {} THEN seq
    ELSE LET i == CHOOSE x \in DOMAIN table : TRUE
         IN HighId([y \in DOMAIN table \ {i} |-> table[y]], Max(seq, i))

\* model.NewULID: an identifier never handed out before
NewULID(table, seq) == HighId(table, seq) + 1

Put(f, k, v) == [x \in (DOMAIN f) \cup {k} |-> IF x = k THEN v ELSE f[x]]

Drop(f, ks) == [x \in (DOMAIN f) \ ks |-> f[x]]

\* the identifier counters follow the rows a handler has inserted
IdsHandedOut ==
    /\ entrySeq' = HighId(entries', entrySeq)
    /\ pauseSeq' = HighId(pauses', pauseSeq)

\* rows of the pauses table that belong to one entry
PausesOf(ps, id) == {p \in DOMAIN ps : ps[p].entry = id}

OpenPausesOf(ps, id) == {p \in PausesOf(ps, id) : ps[p].resume = NoTime}

ActiveIds(es) == {i \in DOMAIN es : es[i].status \in {StatusRunning, StatusPaused}}

\* fault: the query forgets the paused entries (WHERE status = 'running')
GetRunningEntryRunningOnly(es) ==
    {i \in DOMAIN es :
        /\ es[i].status = StatusRunning
        /\ \A j \in DOMAIN es :
              es[j].status = StatusRunning => es[j].start <= es[i].start}

\* GetRunningEntry: WHERE status IN ('running','paused') ORDER BY start_time DESC
\* LIMIT 1.  The result is the set of rows the query may return (empty: nil).
GetRunningEntry(es) ==
    {i \in ActiveIds(es) : \A j \in ActiveIds(es) : es[j].start <= es[i].start}

\* fault: ORDER BY start_time ASC
GetLastEntryOldest(es) ==
    {i \in DOMAIN es : \A j \in DOMAIN es : es[j].start >= es[i].start}

\* GetLastEntry: ORDER BY start_time DESC LIMIT 1 over all entries
GetLastEntry(es) ==
    {i \in DOMAIN es : \A j \in DOMAIN es : es[j].start <= es[i].start}


\* ----------------------------------------------------- Duration Calculator
\* GetPausesForEntry: the entry's pauses ORDER BY pause_time, as a sequence
\* of pause ids (rows with the same pause_time come in id order).
RECURSIVE SortPauses(_, _)
SortPauses(ps, ids) ==
    IF ids = {} THEN <<>>
    ELSE LET first == CHOOSE p \in ids : \A q \in ids :
                          \/ ps[p].pause < ps[q].pause
                          \/ (ps[p].pause = ps[q].pause /\ p <= q)
         IN <<first>> \o SortPauses(ps, ids \ {first})

GetPausesForEntry(ps, id) == SortPauses(ps, PausesOf(ps, id))

\* the loop of Entry.Duration over e.Pauses, from index k on
RECURSIVE SubtractPauses(_, _, _, _, _, _)
SubtractPauses(total, ps, list, k, status, t) ==
    IF k > Len(list) THEN total
    ELSE LET p == ps[list[k]]
             next == IF p.resume # NoTime THEN total - (p.resume - p.pause)
                     ELSE IF status = StatusPaused THEN total - (t - p.pause)
                     ELSE total
         IN SubtractPauses(next, ps, list, k + 1, status, t)

\* fault: the end_time of a stopped entry is not used
DurationToNow(es, ps, id, t) ==
    SubtractPauses(t - es[id].start, ps, GetPausesForEntry(ps, id), 1, es[id].status, t)

\* Entry.Duration, with time.Now() = t
Duration(es, ps, id, t) ==
    LET e == es[id]
        endTime == IF e.end # NoTime THEN e.end ELSE t
    IN SubtractPauses(endTime - e.start, ps, GetPausesForEntry(ps, id), 1, e.status, t)

\* -------------------------------------------------------------- Init, clock
Init ==
    /\ entries = <<>>
    /\ pauses = <<>>
    /\ projects = {}
    /\ tagsTable = {}
    /\ now = 0
    /\ entrySeq = 0
    /\ pauseSeq = 0
    /\ edits = 0
    /\ commands = 0
    /\ phase = "idle"
    /\ pending = NoPending
    /\ last = Last("none", "ok", 0)
    /\ shown = NoShown
    /\ invocations = <<>>

\* the wall clock advances between two command invocations
Tick ==
    /\ phase = "idle"
    /\ now < MaxTime
    /\ now' = now + 1
    /\ UNCHANGED <<entries, pauses, projects, tagsTable, entrySeq, pauseSeq,
                   edits, commands, phase, pending, last, shown, invocations>>

\* ------------------------------------------------------------ Gap Reconciler
\* the event list parsePmsetLog collects: matched lines with t.After(since)
EventsSince(log, since) == SelectSeq(log, LAMBDA e : e.time > since)

\* fault: *sleepStart keeps the time of the event that opened the gap, as it
\* would with one loop variable per iteration
RECURSIVE PairEventsPerIteration(_, _, _, _, _)
PairEventsPerIteration(events, k, periods, sleepStart, sleepIsSystem) ==
    IF k > Len(events) THEN periods
    ELSE LET e == events[k] IN
         IF e.isStart
         THEN IF sleepStart = NoTime
              THEN PairEventsPerIteration(events, k + 1, periods, e.time, e.isSystem)
              ELSE IF e.isSystem /\ ~sleepIsSystem
                   THEN PairEventsPerIteration(events, k + 1, periods, sleepStart, TRUE)
                   ELSE PairEventsPerIteration(events, k + 1, periods, sleepStart,
                                               sleepIsSystem)
         ELSE IF sleepStart # NoTime
              THEN LET duration == e.time - sleepStart
                       reason == IF sleepIsSystem THEN ReasonSystemSleep
                                 ELSE ReasonDisplayOff
                       period == [sleep |-> sleepStart, wake |-> e.time,
                                  reason |-> reason]
                   IN PairEventsPerIteration(events, k + 1,
                                 IF duration >= Minute THEN Append(periods, period)
                                 ELSE periods,
                                 NoTime, FALSE)
              ELSE PairEventsPerIteration(events, k + 1, periods, sleepStart,
                                          sleepIsSystem)

\* the pairing loop of parsePmsetLog from event k on.  sleepStart # NoTime
\* says that the pointer sleepStart is not nil, and is the time of the event
\* that set it.  The pointer is &e.time, the address of a field of the range
\* variable e, and go.mod sets the language version to go 1.21, where a range
\* loop has one variable for all its iterations: when a gap-end is reached
\* *sleepStart reads e.time of the gap-end itself, so the duration is zero and
\* the period would start where it ends.
RECURSIVE PairEvents(_, _, _, _, _)
PairEvents(events, k, periods, sleepStart, sleepIsSystem) ==
    IF k > Len(events) THEN periods
    ELSE LET e == events[k] IN
         IF e.isStart
         THEN IF sleepStart = NoTime
              THEN PairEvents(events, k + 1, periods, e.time, e.isSystem)
              ELSE IF e.isSystem /\ ~sleepIsSystem
                   THEN PairEvents(events, k + 1, periods, sleepStart, TRUE)
                   ELSE PairEvents(events, k + 1, periods, sleepStart, sleepIsSystem)
         ELSE IF sleepStart # NoTime
              THEN LET deref == e.time
                       duration == e.time - deref
                       reason == IF sleepIsSystem THEN ReasonSystemSleep
                                 ELSE ReasonDisplayOff
                       period == [sleep |-> deref, wake |-> e.time, reason |-> reason]
                   IN PairEvents(events, k + 1,
                                 IF duration >= Minute THEN Append(periods, period)
                                 ELSE periods,
                                 NoTime, FALSE)
              ELSE PairEvents(events, k + 1, periods, sleepStart, sleepIsSystem)

parsePmsetLog(log, since) ==
    PairEvents(EventsSince(log, since), 1, <<>>, NoTime, FALSE)

\* the latest resume_time among the closed pauses (time.Time{} when none)
RECURSIVE LastPauseEndFrom(_, _, _, _)
LastPauseEndFrom(ps, list, k, acc) ==
    IF k > Len(list) THEN acc
    ELSE LET p == ps[list[k]] IN
         LastPauseEndFrom(ps, list, k + 1,
                          IF p.resume # NoTime /\ p.resume > acc THEN p.resume ELSE acc)

LastPauseEnd(ps, id) == LastPauseEndFrom(ps, GetPausesForEntry(ps, id), 1, ZeroTime)

UnhandledSleep(periods, lastPauseEnd) ==
    SelectSeq(periods, LAMBDA sp : sp.wake > lastPauseEnd)

\* fault: the two instants of the new row change places
CreatePauseSwapped(ps, entryID, pauseTime, resumeTime, reason) ==
    Put(ps, NewULID(ps, pauseSeq),
        [entry |-> entryID, pause |-> resumeTime, resume |-> pauseTime, reason |-> reason])

\* fault: the new row is stored without its resume_time
CreatePauseOpen(ps, entryID, pauseTime, resumeTime, reason) ==
    Put(ps, NewULID(ps, pauseSeq),
        [entry |-> entryID, pause |-> pauseTime, resume |-> NoTime, reason |-> reason])

\* CreatePause / createPauseForSleep: INSERT INTO pauses
CreatePause(ps, entryID, pauseTime, resumeTime, reason) ==
    Put(ps, NewULID(ps, pauseSeq),
        [entry |-> entryID, pause |-> pauseTime, resume |-> resumeTime, reason |-> reason])

RECURSIVE CreatePausesForSleep(_, _, _, _)
CreatePausesForSleep(ps, entryID, list, k) ==
    IF k > Len(list) THEN ps
    ELSE CreatePausesForSleep(
             CreatePause(ps, entryID, list[k].sleep, list[k].wake, list[k].reason),
             entryID, list, k + 1)

\* CheckAndHandleSleep on entry id, the power log being readable
SleepPausesFor(ps, es, id, log) ==
    UnhandledSleep(parsePmsetLog(log, es[id].start), LastPauseEnd(ps, id))

\* the lines of "pmset -g log" that match one of the four patterns, oldest
\* first: Sleep / Display is turned off (isStart), Wake / Display is turned on.
\* The log holds what has happened, so no event is later than now; it opens
\* with a sleep or display-off line and, the machine being awake to run the
\* command, closes with a wake or display-on line.
PowerEvents(from) ==
    {[time |-> t, isStart |-> st, isSystem |-> sy] :
        t \in from..now, st \in BOOLEAN, sy \in BOOLEAN}

RECURSIVE PowerLogsFrom(_, _)
PowerLogsFrom(from, n) ==
    IF n = 0 THEN {<<>>}
    ELSE {<<>>} \cup UNION {{<<e>> \o rest : rest \in PowerLogsFrom(e.time, n - 1)} :
                            e \in PowerEvents(from)}

PowerLogs ==
    {log \in PowerLogsFrom(0, MaxEvents) :
        \/ log = <<>>
        \/ /\ log[1].isStart
           /\ ~log[Len(log)].isStart
           /\ \A k \in 1..Len(log) : ~log[k].isStart => log[k].isSystem = log[1].isSystem}

\* fault: PersistentPreRunE returns the error of the sleep check, and cobra
\* ends the invocation before the handler
PreRunPhaseFatal(sleepErr) == IF sleepErr THEN "idle" ELSE "run"

\* where the invocation stands when PersistentPreRunE returns: the error of
\* the sleep check is printed as a warning and nil is returned, so the
\* handler runs next
PreRunPhase(sleepErr) == "run"

\* rootCmd.PersistentPreRunE: the sleep check that precedes a command's handler.
\* "warning": running pmset fails; the error is printed as a warning.  The
\* power log a check read stays in last.args.
PreRun ==
    /\ phase = "idle"
    /\ commands < MaxCommands
    /\ commands' = commands + 1
    /\ \/ /\ GetRunningEntry(entries) = {}
          /\ pauses' = pauses
          /\ phase' = PreRunPhase(FALSE)
          /\ last' = Last("precheck", "noentry", 0)
       \/ \E id \in GetRunningEntry(entries) :
            /\ pauses' = pauses
            /\ phase' = PreRunPhase(TRUE)
            /\ last' = Last("precheck", "warning", id)
       \/ \E id \in GetRunningEntry(entries), log \in PowerLogs :
                 LET unhandled == SleepPausesFor(pauses, entries, id, log) IN
                 /\ pauseSeq + Len(unhandled) <= MaxPauses
                 /\ pauses' = CreatePausesForSleep(pauses, id, unhandled, 1)
                 /\ phase' = PreRunPhase(FALSE)
                 /\ last' = [Last("precheck",
                                  IF Len(unhandled) = 0 THEN "nosleep" ELSE "created",
                                  id)
                                EXCEPT !.args = log]
    /\ UNCHANGED <<entries, projects, tagsTable, shown, now, pending, edits>>
    /\ IdsHandedOut
    /\ UNCHANGED invocations

\* ------------------------------------------------------ Entry State Machine
\* the command lines of "tally start": @project, title words and +tags
StartArgs ==
    { [project |-> "work", title |-> "fix", tags |-> {"backend"}],
      [project |-> "personal", title |-> "", tags |-> {}] }

\* db.GetOrCreateProject: the projects table once the row of name is there
GetOrCreateProject(table, name) == table \cup {name}

\* db.GetOrCreateTag for each tag name of a command line or a document
GetOrCreateTags(table, names) == table \cup names

\* fault: the new row gets the zero instant instead of the clock's
CreateEntryAtEpoch(es, project, title, tags, t) ==
    Put(es, NewULID(es, entrySeq),
        [project |-> project, title |-> title, tags |-> tags,
         start |-> 0, end |-> NoTime, status |-> StatusRunning])

\* CreateEntry: INSERT INTO entries ... status 'running', start_time = now
CreateEntry(es, project, title, tags, t) ==
    Put(es, NewULID(es, entrySeq),
        [project |-> project, title |-> title, tags |-> tags,
         start |-> t, end |-> NoTime, status |-> StatusRunning])

\* fault: StopEntry without its first UPDATE
StopEntryPausesLeftOpen(ps, id, t) == ps

\* StopEntry: close the open pauses of the entry, then set end_time and status
StopEntryPauses(ps, id, t) ==
    [p \in DOMAIN ps |->
        IF ps[p].entry = id /\ ps[p].resume = NoTime
        THEN [ps[p] EXCEPT !.resume = t] ELSE ps[p]]

\* fault: the second UPDATE sets the status and forgets end_time
StopEntryRowStatusOnly(es, id, t) ==
    [es EXCEPT ![id] = [@ EXCEPT !.status = StatusStopped]]

StopEntryRow(es, id, t) ==
    [es EXCEPT ![id] = [@ EXCEPT !.end = t, !.status = StatusStopped]]

\* PauseEntry: INSERT an open pause, UPDATE status = 'paused', in one transaction
PauseEntryPauses(ps, id, reason, t) == CreatePause(ps, id, t, NoTime, reason)

\* fault: PauseEntry without its UPDATE of the status
PauseEntryRowUnchanged(es, id) == es

PauseEntryRow(es, id) == [es EXCEPT ![id] = [@ EXCEPT !.status = StatusPaused]]

\* fault: ResumeEntry without its UPDATE of the pauses
ResumeEntryPausesLeftOpen(ps, id, t) == ps

\* ResumeEntry: close the open pauses, UPDATE status = 'running', in one transaction
ResumeEntryPauses(ps, id, t) ==
    [p \in DOMAIN ps |->
        IF ps[p].entry = id /\ ps[p].resume = NoTime
        THEN [ps[p] EXCEPT !.resume = t] ELSE ps[p]]

\* fault: ResumeEntry without its second UPDATE
ResumeEntryRowUnchanged(es, id) == es

ResumeEntryRow(es, id) == [es EXCEPT ![id] = [@ EXCEPT !.status = StatusRunning]]

\* tally start
runStart ==
    /\ phase = "run"
    /\ phase' = "idle"
    /\ \/ \E running \in GetRunningEntry(entries) :
            /\ last' = Last("start", "notice", running)
            /\ UNCHANGED <<entries, projects, tagsTable>>
       \/ /\ GetRunningEntry(entries) = {}
          /\ entrySeq < MaxEntries
          /\ \E a \in StartArgs :
               /\ projects' = GetOrCreateProject(projects, a.project)
               /\ tagsTable' = GetOrCreateTags(tagsTable, a.tags)
               /\ entries' = CreateEntry(entries, a.project, a.title, a.tags, now)
               /\ last' = Last("start", "ok", NewULID(entries, entrySeq))
    /\ UNCHANGED <<pauses, shown, now, pending, edits, commands>>
    /\ IdsHandedOut
    /\ UNCHANGED invocations

\* the instants a user types, on a command line or in a document
TypedTimes == {0, now}

\* parseTimeInput: the instant a well-formed input names, or an error
TimeInputs == TypedTimes \cup {BadTime}

\* fault: the flags are parsed and not compared with anything
HistoricalPauseRejectedParseOnly(startTime, pauseFrom, pauseTo, t) ==
    pauseFrom = BadTime \/ pauseTo = BadTime

\* runPause with --from returns an error: a flag does not parse, from is before
\* the entry's start_time, or to (the clock's time without --to) is before from
HistoricalPauseRejected(startTime, pauseFrom, pauseTo, t) ==
    \/ pauseFrom = BadTime
    \/ pauseFrom < startTime
    \/ pauseTo = BadTime
    \/ (IF pauseTo = NoTime THEN t ELSE pauseTo) < pauseFrom

\* tally pause [-f from [-t to]]; NoTime stands for a flag that is not given
runPause ==
    /\ phase = "run"
    /\ phase' = "idle"
    /\ \E pauseFrom \in TimeInputs \cup {NoTime} :
       \E pauseTo \in (IF pauseFrom = NoTime THEN {} ELSE TimeInputs) \cup {NoTime} :
       LET flags == IF pauseFrom = NoTime THEN <<>> ELSE <<pauseFrom, pauseTo>> IN
       \/ /\ GetRunningEntry(entries) = {}
          /\ last' = [Last("pause", "norunning", 0) EXCEPT !.args = flags]
          /\ UNCHANGED <<entries, pauses>>
       \/ \E id \in GetRunningEntry(entries) :
            IF pauseFrom # NoTime
            THEN LET toTime == IF pauseTo = NoTime THEN now ELSE pauseTo
                 IN IF HistoricalPauseRejected(entries[id].start, pauseFrom,
                                               pauseTo, now)
                    THEN /\ last' = [Last("pausehist", "error", id)
                                        EXCEPT !.args = flags]
                         /\ UNCHANGED <<entries, pauses>>
                    ELSE /\ pauseSeq < MaxPauses
                         /\ pauses' = CreatePause(pauses, id, pauseFrom, toTime,
                                                  ReasonManual)
                         /\ last' = [Last("pausehist", "ok", id)
                                        EXCEPT !.args = flags]
                         /\ UNCHANGED entries
            ELSE IF entries[id].status = StatusPaused
                 THEN /\ last' = Last("pause", "notice", id)
                      /\ UNCHANGED <<entries, pauses>>
                 ELSE /\ pauseSeq < MaxPauses
                      /\ pauses' = PauseEntryPauses(pauses, id, ReasonManual, now)
                      /\ entries' = PauseEntryRow(entries, id)
                      /\ last' = Last("pause", "ok", id)
    /\ UNCHANGED <<projects, tagsTable, shown, now, pending, edits, commands>>
    /\ IdsHandedOut
    /\ UNCHANGED invocations

\* tally stop
runStop ==
    /\ phase = "run"
    /\ phase' = "idle"
    /\ \/ /\ GetRunningEntry(entries) = {}
          /\ last' = Last("stop", "norunning", 0)
          /\ UNCHANGED <<entries, pauses>>
       \/ \E id \in GetRunningEntry(entries) :
            /\ pauses' = StopEntryPauses(pauses, id, now)
            /\ entries' = StopEntryRow(entries, id, now)
            /\ last' = Last("stop", "ok", id)
    /\ UNCHANGED <<projects, tagsTable, shown, now, pending, edits, commands>>
    /\ IdsHandedOut
    /\ UNCHANGED invocations

\* ---------------------------------------------------------- Resume Resolver
\* db.ReopenEntry: the entry goes back to running and loses its end_time
ReopenEntry(es, id) ==
    [es EXCEPT ![id] = [@ EXCEPT !.end = NoTime, !.status = StatusRunning]]

\* db.GetLastEntryForProject: the latest entry of one project
GetLastEntryForProject(es, project) ==
    {i \in DOMAIN es :
        /\ es[i].project = project
        /\ \A j \in DOMAIN es : es[j].project = project => es[j].start <= es[i].start}

\* db.CreateEntryAt: CreateEntry with a caller-chosen start_time
CreateEntryAt(es, project, title, tags, startTime) ==
    CreateEntry(es, project, title, tags, startTime)

\* what a handler of tally resume leaves behind: the @project it was given
\* ("" for none) and the instant it resumes at
ResumeLast(l, projectFilter, startTime) ==
    [l EXCEPT !.args = <<projectFilter, startTime>>]

\* reopenEntry up to its prompt: a stopped entry is shown and the command
\* waits for the answer; any other entry ends the command
ReopenEntryAsk(es, id, projectFilter, startTime, stopped) ==
    IF es[id].status # StatusStopped
    THEN /\ phase' = "idle"
         /\ pending' = NoPending
         /\ last' = ResumeLast(Last("reopen", "notstopped", id), projectFilter, startTime)
    ELSE /\ phase' = "prompt"
         /\ pending' = [entry |-> id, at |-> startTime, end |-> es[id].end]
         /\ last' = ResumeLast(Last("prompt", IF stopped THEN "stopped" ELSE "ok", id), projectFilter, startTime)

\* resumeDefault: tally resume without @project
resumeDefault(startTime) ==
    \/ \E id \in GetRunningEntry(entries) :
         IF entries[id].status = StatusRunning
         THEN /\ last' = ResumeLast(Last("resume", "notice", id), "", startTime)
              /\ phase' = "idle"
              /\ UNCHANGED <<entries, pauses, pending, now>>
         ELSE /\ pauses' = ResumeEntryPauses(pauses, id, now)
              /\ entries' = ResumeEntryRow(entries, id)
              /\ last' = ResumeLast(Last("resume", "ok", id), "", startTime)
              /\ phase' = "idle"
              /\ UNCHANGED <<pending, now>>
    \/ /\ GetRunningEntry(entries) = {}
       /\ GetLastEntry(entries) = {}
       /\ last' = ResumeLast(Last("resume", "nothing", 0), "", startTime)
       /\ phase' = "idle"
       /\ UNCHANGED <<entries, pauses, pending, now>>
    \/ /\ GetRunningEntry(entries) = {}
       /\ \E lastEntry \in GetLastEntry(entries) :
            ReopenEntryAsk(entries, lastEntry, "", startTime, FALSE)
       /\ UNCHANGED <<entries, pauses, now>>

\* what resumeProject does once the running entry, if any, is stopped
ResumeProjectAfterStop(es, projectName, startTime, stopped) ==
    \/ \E lastEntry \in GetLastEntry(es) :
         /\ es[lastEntry].project = projectName
         /\ ReopenEntryAsk(es, lastEntry, projectName, startTime, stopped)
         /\ entries' = es
    \/ /\ \/ GetLastEntry(es) = {}
          \/ \E lastEntry \in GetLastEntry(es) : es[lastEntry].project # projectName
       /\ phase' = "idle"
       /\ pending' = NoPending
       /\ IF GetLastEntryForProject(es, projectName) = {}
          THEN /\ entries' = es
               /\ last' = ResumeLast(Last("resumeproject", "notfound", 0), projectName, startTime)
          ELSE \E src \in GetLastEntryForProject(es, projectName) :
                 /\ entrySeq < MaxEntries
                 /\ entries' = CreateEntryAt(es, projectName, es[src].title,
                                             es[src].tags, startTime)
                 /\ last' = ResumeLast(Last("clone", IF stopped THEN "stopped" ELSE "ok", src), projectName, startTime)

\* resumeProject: tally resume @project.  startTime was read before StopEntry
\* reads the clock again, elapsed units later.
resumeProject(projectName, startTime) ==
    IF projectName \notin projects
    THEN /\ last' = ResumeLast(Last("resumeproject", "noproject", 0), projectName, startTime)
         /\ phase' = "idle"
         /\ UNCHANGED <<entries, pauses, pending, now>>
    ELSE \/ /\ GetRunningEntry(entries) = {}
            /\ ResumeProjectAfterStop(entries, projectName, startTime, FALSE)
            /\ UNCHANGED <<pauses, now>>
         \/ \E running \in GetRunningEntry(entries), elapsed \in 0..1 :
              /\ now + elapsed <= MaxTime
              /\ now' = now + elapsed
              /\ pauses' = StopEntryPauses(pauses, running, now')
              /\ ResumeProjectAfterStop(StopEntryRow(entries, running, now'),
                                        projectName, startTime, TRUE)

\* tally resume [@project] [-f from]; "" and NoTime stand for what is not given
runResume ==
    /\ phase = "run"
    /\ \E projectFilter \in ProjectNames \cup {""}, resumeFrom \in TimeInputs \cup {NoTime} :
         IF resumeFrom = BadTime
         THEN /\ last' = ResumeLast(Last("resume", "error", 0), projectFilter, BadTime)
              /\ phase' = "idle"
              /\ UNCHANGED <<entries, pauses, pending, now>>
         ELSE LET startTime == IF resumeFrom = NoTime THEN now ELSE resumeFrom IN
              IF projectFilter # ""
              THEN resumeProject(projectFilter, startTime)
              ELSE resumeDefault(startTime)
    /\ UNCHANGED <<projects, tagsTable, shown, edits, commands>>
    /\ IdsHandedOut
    /\ UNCHANGED invocations

\* the lines a user types at a [y/N] prompt
Answers == {"y", "Yes", "n", ""}

\* strings.TrimSpace(strings.ToLower(input)) on the lines of Answers
ToLowerTrim(input) == IF input = "Yes" THEN "yes" ELSE input

\* fault: a [Y/n] prompt, where the empty line confirms
ConfirmedUnlessNo(input) == ToLowerTrim(input) # "n"

\* the prompt's test, input != "y" && input != "yes", negated
Confirmed(input) == ToLowerTrim(input) = "y" \/ ToLowerTrim(input) = "yes"

\* reopenEntry from its prompt on: the answer is read; y or yes reopens

reopenEntry ==
    /\ phase = "prompt"
    /\ phase' = "idle"
    /\ pending' = NoPending
    /\ \E input \in Answers :
         IF ~Confirmed(input)
         THEN /\ last' = [Last("reopen", "cancelled", pending.entry) EXCEPT !.input = input]
              /\ UNCHANGED <<entries, pauses>>
         ELSE /\ IF pending.end # NoTime
                 THEN /\ pauseSeq < MaxPauses
                      /\ pauses' = CreatePause(pauses, pending.entry, pending.end,
                                               pending.at, ReasonManual)
                 ELSE pauses' = pauses
              /\ entries' = ReopenEntry(entries, pending.entry)
              /\ last' = [Last("reopen", "ok", pending.entry) EXCEPT !.input = input]
    /\ UNCHANGED <<projects, tagsTable, shown, now, edits, commands>>
    /\ IdsHandedOut
    /\ UNCHANGED invocations

\* ------------------------------------------------------- Pause Ledger, edit
\* db.UpdatePause: UPDATE pauses SET pause_time, resume_time WHERE id = ?
UpdatePause(ps, id, pauseTime, resumeTime) ==
    [p \in DOMAIN ps |->
        IF p = id THEN [ps[p] EXCEPT !.pause = pauseTime, !.resume = resumeTime]
        ELSE ps[p]]

\* db.DeletePause: DELETE FROM pauses WHERE id = ?
DeletePause(ps, id) == Drop(ps, {id})

\* fault: an edit that sets an end_time also sets the status to stopped
UpdateEntryStopping(es, id, project, title, startTime, endTime, tags) ==
    IF id \notin DOMAIN es THEN es ELSE
    [es EXCEPT ![id] =
        IF startTime # NoTime /\ endTime # NoTime
        THEN [@ EXCEPT !.project = project, !.title = title, !.tags = tags,
                       !.start = startTime, !.end = endTime,
                       !.status = StatusStopped]
        ELSE [@ EXCEPT !.project = project, !.title = title, !.tags = tags,
                       !.start = startTime]]

\* db.UpdateEntry: project, title and tags always; start_time when given;
\* end_time only when both times are given; never the status.  The UPDATE
\* has WHERE id = ?: it changes no row when the entry is gone.
UpdateEntry(es, id, project, title, startTime, endTime, tags) ==
    IF id \notin DOMAIN es THEN es ELSE
    [es EXCEPT ![id] =
        IF startTime # NoTime /\ endTime # NoTime
        THEN [@ EXCEPT !.project = project, !.title = title, !.tags = tags,
                       !.start = startTime, !.end = endTime]
        ELSE IF startTime # NoTime
        THEN [@ EXCEPT !.project = project, !.title = title, !.tags = tags,
                       !.start = startTime]
        ELSE [@ EXCEPT !.project = project, !.title = title, !.tags = tags]]

\* the JSON document runEdit writes for the editor: the entry as stored
EditableEntry(es, ps, id) ==
    LET list == GetPausesForEntry(ps, id) IN
    [project |-> es[id].project, title |-> es[id].title, tags |-> es[id].tags,
     start |-> es[id].start, end |-> es[id].end, status |-> es[id].status,
     pauses |-> [k \in 1..Len(list) |->
                   [id |-> list[k], pause |-> ps[list[k]].pause,
                    resume |-> ps[list[k]].resume, reason |-> ps[list[k]].reason]]]

\* the loop of runEdit over updated.Pauses from item k on: parse, then create
\* (no id) or update (id).  r.err tells a parse error ended the command there;
\* r.full that the pauses table of the model has no room for a new row.
RECURSIVE EditPauses(_, _, _, _)
EditPauses(r, entryID, items, k) ==
    IF k > Len(items) \/ r.err \/ r.full THEN r
    ELSE LET p == items[k] IN
         IF p.pause = BadTime \/ p.resume = BadTime
         THEN [r EXCEPT !.err = TRUE]
         ELSE IF p.id = NoId
         THEN IF HighId(r.ps, pauseSeq) >= MaxPauses
              THEN [r EXCEPT !.full = TRUE]
              ELSE EditPauses(
                     [r EXCEPT !.ps = CreatePause(r.ps, entryID, p.pause, p.resume,
                                     IF p.reason = "" THEN ReasonManual ELSE p.reason)],
                     entryID, items, k + 1)
         ELSE EditPauses(
                [r EXCEPT !.ps = UpdatePause(r.ps, p.id, p.pause, p.resume),
                          !.updated = r.updated \cup {p.id}],
                entryID, items, k + 1)

\* the last loop of runEdit: the pauses the entry had and the document lacks
DeleteRemovedPauses(ps, before, updated) == Drop(ps, before \ updated)

\* the documents the editor may hand back for entry id: the one written, or
\* that one with an entry field changed, with one pause item dropped, changed,
\* added (no id) or carrying the id of a stored pause the document did not
\* hold (foreign), or with a field change together with a malformed pause
\* timestamp
EntryFieldEdits(doc) ==
    {[doc EXCEPT !.start = t] : t \in TimeInputs}
    \cup {[doc EXCEPT !.end = t] : t \in TimeInputs \cup {NoTime}}
    \cup {[doc EXCEPT !.project = q] : q \in ProjectNames}
    \cup {[doc EXCEPT !.status = st] :
             st \in {StatusRunning, StatusPaused, StatusStopped}}

EditPauseTimes == {<<pt, rt>> : pt \in TypedTimes, rt \in TypedTimes \cup {NoTime}}

MalformedPauseTimes == {<<BadTime, NoTime>>, <<0, BadTime>>}

RemoveAt(seq, k) == [i \in 1..(Len(seq) - 1) |-> IF i < k THEN seq[i] ELSE seq[i + 1]]

PauseItem(id, tr, reason) == [id |-> id, pause |-> tr[1], resume |-> tr[2], reason |-> reason]

PauseListEdits(items, foreign, times) ==
    {RemoveAt(items, k) : k \in 1..Len(items)}
    \cup {[items EXCEPT ![k] = PauseItem(items[k].id, tr, items[k].reason)] :
             k \in 1..Len(items), tr \in times}
    \cup {Append(items, PauseItem(NoId, tr, "")) : tr \in times}
    \cup {Append(items, PauseItem(f, tr, ReasonManual)) : f \in foreign, tr \in times}

EditedDocuments(doc, foreign) ==
    {doc}
    \cup EntryFieldEdits(doc)
    \cup {[doc EXCEPT !.pauses = q] :
             q \in PauseListEdits(doc.pauses, foreign,
                                  EditPauseTimes \cup MalformedPauseTimes)}
    \cup {[d EXCEPT !.pauses = q] :
             d \in EntryFieldEdits(doc),
             q \in PauseListEdits(doc.pauses, {}, MalformedPauseTimes)}

\* what the history keeps of an edit: the document the editor handed back
EditLast(res, id, updated) == [Last("edit", res, id) EXCEPT !.args = <<updated>>]

\* commands that wait for their user at one time
MaxWaiting == 1

\* what a command holds while it waits for its user: the id of the entry it
\* loaded and, for tally edit, the document it wrote for the editor
Waiting(op, entry, doc) == [op |-> op, entry |-> entry, doc |-> doc]

\* entry.Pauses as runEdit loaded them: the ids of the document it wrote
LoadedPauses(doc) == {doc.pauses[k].id : k \in DOMAIN doc.pauses}

\* runEdit once the editor has returned and the edited document is read back;
\* before is entry.Pauses as loaded when the command began
EditEntry(id, updated, before) ==
    IF \/ updated.start = BadTime
       \/ updated.end = BadTime
       \/ (updated.end # NoTime /\ updated.end < updated.start)
    THEN /\ last' = EditLast("invalid", id, updated)
         /\ UNCHANGED <<entries, pauses, projects, tagsTable>>
    ELSE LET r == EditPauses([ps |-> pauses, updated |-> {}, err |-> FALSE,
                              full |-> FALSE], id, updated.pauses, 1)
         IN /\ ~r.full
            /\ projects' = GetOrCreateProject(projects, updated.project)
            /\ tagsTable' = GetOrCreateTags(tagsTable, updated.tags)
            /\ entries' = UpdateEntry(entries, id, updated.project, updated.title,
                                      updated.start, updated.end, updated.tags)
            /\ IF r.err
               THEN /\ pauses' = r.ps
                    /\ last' = EditLast("error", id, updated)
               ELSE /\ pauses' = DeleteRemovedPauses(r.ps, before, r.updated)
                    /\ last' = EditLast("ok", id, updated)

\* tally edit [id], up to the editor; 0 stands for no argument (the most
\* recent entry).  The entry and its pauses are loaded, the document is
\* written to the temporary file and the command waits in editCmd.Run().
runEdit ==
    /\ phase = "run"
    /\ phase' = "idle"
    /\ edits < MaxEdits
    /\ edits' = edits + 1
    /\ \E arg \in EntryIds \cup {0} :
         \/ /\ arg = 0
            /\ GetLastEntry(entries) = {}
            /\ last' = Last("edit", "noentries", 0)
            /\ UNCHANGED invocations
         \/ /\ arg # 0
            /\ arg \notin DOMAIN entries
            /\ last' = Last("edit", "notfound", arg)
            /\ UNCHANGED invocations
         \/ \E id \in (IF arg = 0 THEN GetLastEntry(entries) ELSE {arg} \cap DOMAIN entries) :
              /\ Len(invocations) < MaxWaiting
              /\ invocations' = Append(invocations,
                                       Waiting("edit", id, EditableEntry(entries, pauses, id)))
              /\ last' = Last("edit", "editor", id)
    /\ UNCHANGED <<entries, pauses, projects, tagsTable, shown, now,
                   pending, commands>>
    /\ IdsHandedOut

\* tally edit from the return of the editor on: the document is read back and
\* written to the store, whatever other commands did to the store meanwhile
runEditSave ==
    /\ phase = "idle"
    /\ \E w \in DOMAIN invocations :
         /\ invocations[w].op = "edit"
         /\ invocations' = RemoveAt(invocations, w)
         /\ \E updated \in EditedDocuments(invocations[w].doc,
                                           DOMAIN pauses \ LoadedPauses(invocations[w].doc)) :
              EditEntry(invocations[w].entry, updated, LoadedPauses(invocations[w].doc))
    /\ UNCHANGED <<shown, now, pending, edits, commands, phase>>
    /\ IdsHandedOut

\* ------------------------------------------------------------------- delete
\* fault: DeleteEntry without its DELETE FROM pauses
DeleteEntryPausesKept(ps, id) == ps

\* db.DeleteEntry: the entry with its pauses (and tag rows), in one transaction
DeleteEntryPauses(ps, id) == Drop(ps, PausesOf(ps, id))

DeleteEntry(es, id) == Drop(es, {id})

\* tally delete [id] [-f], up to the prompt or, with -f, to the end; 0 stands
\* for no argument (the most recent entry)
runDelete ==
    /\ phase = "run"
    /\ phase' = "idle"
    /\ \E arg \in EntryIds \cup {0}, deleteForce \in BOOLEAN :
         \/ /\ arg = 0
            /\ GetLastEntry(entries) = {}
            /\ last' = Last("delete", "noentries", 0)
            /\ UNCHANGED <<entries, pauses, invocations>>
         \/ /\ arg # 0
            /\ arg \notin DOMAIN entries
            /\ last' = Last("delete", "notfound", arg)
            /\ UNCHANGED <<entries, pauses, invocations>>
         \/ \E id \in (IF arg = 0 THEN GetLastEntry(entries) ELSE {arg} \cap DOMAIN entries) :
              IF deleteForce
              THEN /\ pauses' = DeleteEntryPauses(pauses, id)
                   /\ entries' = DeleteEntry(entries, id)
                   /\ last' = Last("delete", "ok", id)
                   /\ UNCHANGED invocations
              ELSE /\ Len(invocations) < MaxWaiting
                   /\ invocations' = Append(invocations, Waiting("delete", id, <<>>))
                   /\ last' = Last("delete", "prompt", id)
                   /\ UNCHANGED <<entries, pauses>>
    /\ UNCHANGED <<projects, tagsTable, shown, now, pending, edits, commands>>
    /\ IdsHandedOut

\* tally delete from its prompt on: the answer is read; y or yes deletes the
\* entry whose id was read before the prompt
runDeleteAnswer ==
    /\ phase = "idle"
    /\ \E w \in DOMAIN invocations, input \in Answers :
         LET id == invocations[w].entry IN
         /\ invocations[w].op = "delete"
         /\ invocations' = RemoveAt(invocations, w)
         /\ IF ~Confirmed(input)
            THEN /\ last' = [Last("delete", "cancelled", id) EXCEPT !.input = input]
                 /\ UNCHANGED <<entries, pauses>>
            ELSE /\ pauses' = DeleteEntryPauses(pauses, id)
                 /\ entries' = DeleteEntry(entries, id)
                 /\ last' = [Last("delete", "ok", id) EXCEPT !.input = input]
    /\ UNCHANGED <<projects, tagsTable, shown, now, pending, edits,
                   commands, phase>>
    /\ IdsHandedOut

\* ------------------------------------------------- Duration on any entry
\* printStatus: the elapsed time of an entry, as Entry.Duration computes it
printStatus ==
    /\ \E id \in DOMAIN entries :
          shown' = [entry |-> id, at |-> now,
                    duration |-> Duration(entries, pauses, id, now)]
    /\ UNCHANGED <<entries, pauses, projects, tagsTable, now, entrySeq, pauseSeq,
                   edits, commands, phase, pending, last, invocations>>

\* the rows an entry and a pause may hold, whatever wrote them
EntryRows ==
    [project : {"work"}, title : {""}, tags : {{}}, start : Times,
     end : Times \cup {NoTime},
     status : {StatusRunning, StatusPaused, StatusStopped}]

PauseRows ==
    [entry : {1}, pause : Times, resume : Times \cup {NoTime}, reason : {ReasonManual}]

\* the pauses tables of up to MaxListed rows.  A pause id is a label, so one
\* table stands for all its relabellings: the one whose ids follow the order
\* of (pause_time, resume_time).
PauseTables ==
    {t \in UNION {[1..n -> PauseRows] : n \in 0..MaxListed} :
        \A i \in DOMAIN t : \A j \in DOMAIN t :
            i < j => \/ t[i].pause < t[j].pause
                     \/ (t[i].pause = t[j].pause /\ t[i].resume <= t[j].resume)}

\* one entry with up to MaxListed pauses, at any time of the clock
InitDuration ==
    /\ entries \in [{1} -> EntryRows]
    /\ pauses \in PauseTables
    /\ projects = {"work"}
    /\ tagsTable = {}
    /\ now \in Times
    /\ entrySeq = 1
    /\ pauseSeq = MaxListed
    /\ edits = 0
    /\ commands = 0
    /\ phase = "idle"
    /\ pending = NoPending
    /\ last = Last("none", "ok", 0)
    /\ shown = NoShown
    /\ invocations = <<>>

NextDuration == printStatus

DurationSpec == InitDuration /\ [][NextDuration]_vars

\* ------------------------------------------------------------- specification
Next ==
    \/ Tick
    \/ PreRun
    \/ runStart
    \/ runPause
    \/ runStop
    \/ runResume
    \/ reopenEntry
    \/ runEdit
    \/ runEditSave
    \/ runDelete
    \/ runDeleteAnswer

Spec == Init /\ [][Next]_vars

\* ------------------------------------------- commands on a store with a past
\* entries in the store when the commands begin, and commands run on it
MaxHistory == 2
MaxHistoryCommands == 2

\* the rows earlier commands may have left: tally start made the entry, tally
\* stop ended it (or it is running still), tally edit set its times
HistoryRows ==
    {r \in {[project |-> a.project, title |-> a.title, tags |-> a.tags,
              start |-> s, end |-> e, status |-> st] :
                a \in StartArgs, s \in 0..1, e \in {NoTime, 0, 1},
                st \in {StatusRunning, StatusStopped}} :
        \/ r.status = StatusRunning /\ r.end = NoTime
        \/ r.status = StatusStopped /\ r.end # NoTime /\ r.start <= r.end}

\* a store of one or two entries without pauses, at most one of them running,
\* at time 1
InitHistory ==
    /\ \E n \in 1..MaxHistory :
         entries \in {es \in [1..n -> HistoryRows] : Cardinality(ActiveIds(es)) <= 1}
    /\ pauses = <<>>
    /\ projects = {entries[i].project : i \in DOMAIN entries}
    /\ tagsTable = UNION {entries[i].tags : i \in DOMAIN entries}
    /\ now = 1
    /\ entrySeq = Cardinality(DOMAIN entries)
    /\ pauseSeq = 0
    /\ edits = 0
    /\ commands = MaxCommands - MaxHistoryCommands
    /\ phase = "idle"
    /\ pending = NoPending
    /\ last = Last("none", "ok", 0)
    /\ shown = NoShown
    /\ invocations = <<>>

\* the empty store, or a store with a past
HistorySpec == (Init \/ InitHistory) /\ [][Next]_vars

\* ------------------------------------------- start, pause, resume, stop only
\* PersistentPreRunE when the sleep check leaves the store alone: there is no
\* active entry, or the power log holds no sleep that is not yet a pause
PreRunNoSleep ==
    /\ phase = "idle"
    /\ phase' = "run"
    /\ last' = IF GetRunningEntry(entries) = {}
               THEN Last("precheck", "noentry", 0)
               ELSE Last("precheck", "nosleep",
                         CHOOSE id \in GetRunningEntry(entries) : TRUE)
    /\ commands < MaxLifecycle
    /\ commands' = commands + 1
    /\ UNCHANGED <<entries, pauses, projects, tagsTable, shown, now, pending,
                   edits>>
    /\ IdsHandedOut
    /\ UNCHANGED invocations

\* tally pause without -f and -t
runPauseNow == runPause /\ last'.op = "pause" /\ last'.args = <<>>

\* tally resume without @project, with an active entry or with no entry at all
runResumeActive ==
    runResume /\ last'.op = "resume" /\ last'.res \in {"notice", "ok", "nothing"}

NextLifecycle ==
    \/ Tick
    \/ PreRunNoSleep
    \/ runStart
    \/ runPauseNow
    \/ runResumeActive
    \/ runStop

LifecycleSpec == Init /\ [][NextLifecycle]_vars

\* ------------------------------------------- the sleep check on any power log
\* the chronological event streams of up to MaxStream matched lines, none
\* later than the clock's time
EventStreams == PowerLogsFrom(0, MaxStream)

\* CheckAndHandleSleep with an active entry and a readable power log; the log
\* it read stays in last.args
CheckAndHandleSleep ==
    /\ phase = "idle"
    /\ phase' = "run"
    /\ commands < MaxCommands
    /\ commands' = commands + 1
    /\ \E id \in GetRunningEntry(entries), log \in EventStreams :
         LET unhandled == SleepPausesFor(pauses, entries, id, log) IN
         /\ pauses' = CreatePausesForSleep(pauses, id, unhandled, 1)
         /\ last' = [Last("precheck",
                          IF Len(unhandled) = 0 THEN "nosleep" ELSE "created", id)
                        EXCEPT !.args = log]
    /\ UNCHANGED <<entries, projects, tagsTable, shown, now, pending, edits>>
    /\ IdsHandedOut
    /\ UNCHANGED invocations

\* CheckAndHandleSleep once more: the command just checked wrote nothing
\* (tally log, tally report), the next invocation finds the same active entry
\* and reads the same power log
CheckAndHandleSleepAgain ==
    /\ phase = "run"
    /\ last.op = "precheck"
    /\ last.id \in GetRunningEntry(entries)
    /\ commands < MaxCommands
    /\ commands' = commands + 1
    /\ LET unhandled == SleepPausesFor(pauses, entries, last.id, last.args) IN
         /\ pauses' = CreatePausesForSleep(pauses, last.id, unhandled, 1)
         /\ last' = [Last("recheck",
                          IF Len(unhandled) = 0 THEN "nosleep" ELSE "created", last.id)
                        EXCEPT !.args = last.args]
    /\ UNCHANGED <<entries, projects, tagsTable, shown, now, pending, edits, phase>>
    /\ IdsHandedOut
    /\ UNCHANGED invocations

\* one active entry with up to MaxListed pauses, paused when one of them is
\* open, the clock at MaxTime
InitGap ==
    /\ pauses \in PauseTables
    /\ entries \in [{1} -> {r \in EntryRows :
                               /\ r.end = NoTime
                               /\ r.status = IF OpenPausesOf(pauses, 1) # {}
                                             THEN StatusPaused ELSE StatusRunning}]
    /\ projects = {"work"}
    /\ tagsTable = {}
    /\ now = MaxTime
    /\ entrySeq = 1
    /\ pauseSeq = MaxListed
    /\ edits = 0
    /\ commands = 0
    /\ phase = "idle"
    /\ pending = NoPending
    /\ last = Last("none", "ok", 0)
    /\ shown = NoShown
    /\ invocations = <<>>

NextGap ==
    \/ CheckAndHandleSleep
    \/ CheckAndHandleSleepAgain

GapSpec == InitGap /\ [][NextGap]_vars

\* ------------------------------------------- stop when a store write fails
\* the statements db.StopEntry executes, each on its own and in this order
StopEntryWrites == <<"pauses", "entries">>

\* db.StopEntry when the statement on table failing returns an error: the
\* statements before it are applied and stay, the function returns the error
StopEntryFailing(es, ps, id, t, failing) ==
    IF failing = StopEntryWrites[1]
    THEN [es |-> es, ps |-> ps]
    ELSE [es |-> es, ps |-> StopEntryPauses(ps, id, t)]

\* tally stop when db.StopEntry returns an error
runStopFailing ==
    /\ phase = "run"
    /\ phase' = "idle"
    /\ \E id \in GetRunningEntry(entries) :
         \E k \in DOMAIN StopEntryWrites :
            LET r == StopEntryFailing(entries, pauses, id, now, StopEntryWrites[k])
            IN /\ entries' = r.es
               /\ pauses' = r.ps
               /\ last' = [Last("stop", "error", id)
                             EXCEPT !.args = <<StopEntryWrites[k]>>]
    /\ UNCHANGED <<projects, tagsTable, shown, now, pending, edits, commands>>
    /\ IdsHandedOut
    /\ UNCHANGED invocations

\* the statements of db.DeleteEntry's transaction, and its commit
DeleteEntryWrites == <<"pauses", "entry_tags", "entries", "commit">>

\* db.DeleteEntry when the statement failing returns an error: the deferred
\* tx.Rollback undoes the statements before it
DeleteEntryFailing(es, ps, id, failing) == [es |-> es, ps |-> ps]

\* tally delete [id] -f when db.DeleteEntry returns an error
runDeleteFailing ==
    /\ phase = "run"
    /\ phase' = "idle"
    /\ \E arg \in EntryIds \cup {0} :
         \E id \in (IF arg = 0 THEN GetLastEntry(entries) ELSE {arg} \cap DOMAIN entries) :
            \E k \in DOMAIN DeleteEntryWrites :
               LET r == DeleteEntryFailing(entries, pauses, id, DeleteEntryWrites[k])
               IN /\ entries' = r.es
                  /\ pauses' = r.ps
                  /\ last' = [Last("delete", "error", id)
                                EXCEPT !.args = <<DeleteEntryWrites[k]>>]
    /\ UNCHANGED <<projects, tagsTable, shown, now, pending, edits,
                   commands, invocations>>
    /\ IdsHandedOut

\* tally delete from its prompt on, when the answer is y or yes and
\* db.DeleteEntry returns an error
runDeleteAnswerFailing ==
    /\ phase = "idle"
    /\ \E w \in DOMAIN invocations, input \in Answers :
         LET id == invocations[w].entry IN
         /\ invocations[w].op = "delete"
         /\ Confirmed(input)
         /\ invocations' = RemoveAt(invocations, w)
         /\ \E k \in DOMAIN DeleteEntryWrites :
               LET r == DeleteEntryFailing(entries, pauses, id, DeleteEntryWrites[k])
               IN /\ entries' = r.es
                  /\ pauses' = r.ps
                  /\ last' = [Last("delete", "error", id)
                                EXCEPT !.input = input,
                                       !.args = <<DeleteEntryWrites[k]>>]
    /\ UNCHANGED <<projects, tagsTable, shown, now, pending, edits,
                   commands, phase>>
    /\ IdsHandedOut

\* tally resume without @project and without -f, no entry active: the last
\* entry is shown and the command waits at the prompt
runResumeReopen ==
    runResume /\ last'.op = "prompt" /\ last'.args = <<"", now>>

\* the store calls reopenEntry makes after the answer y, each on its own
ReopenEntryCalls == <<"CreatePause", "ReopenEntry">>

\* the pauses table when the call failing of reopenEntry returns an error: the
\* gap pause db.CreatePause has inserted stays when db.ReopenEntry fails
ReopenEntryFailing(ps, candidate, failing) ==
    IF failing = ReopenEntryCalls[1] \/ candidate.end = NoTime
    THEN ps
    ELSE CreatePause(ps, candidate.entry, candidate.end, candidate.at, ReasonManual)

\* reopenEntry from its prompt on, when a store call returns an error
reopenEntryFailing ==
    /\ phase = "prompt"
    /\ phase' = "idle"
    /\ pending' = NoPending
    /\ pauseSeq < MaxPauses
    /\ \E input \in Answers :
         \E k \in DOMAIN ReopenEntryCalls :
            /\ Confirmed(input)
            /\ k = 1 => pending.end # NoTime
            /\ pauses' = ReopenEntryFailing(pauses, pending, ReopenEntryCalls[k])
            /\ last' = [Last("reopen", "error", pending.entry)
                          EXCEPT !.input = input, !.args = <<ReopenEntryCalls[k]>>]
    /\ UNCHANGED <<entries, projects, tagsTable, shown, now, edits, commands>>
    /\ IdsHandedOut
    /\ UNCHANGED invocations

NextStoreFault ==
    \/ NextLifecycle
    \/ runStopFailing
    \/ runDelete
    \/ runDeleteAnswer
    \/ runDeleteFailing
    \/ runDeleteAnswerFailing
    \/ runResumeReopen
    \/ reopenEntry
    \/ reopenEntryFailing

StoreFaultSpec == Init /\ [][NextStoreFault]_vars

\* ------------------------------------- command invocations side by side
\* Each tally process reads and writes the store one database call at a time;
\* between two calls of one process, the calls of another may run.  The op of
\* an invocation names the call it makes next.
Invocations == 1..MaxInvocations

\* what an invocation holds between two calls: the call to come, the row it
\* loaded, the arguments of the writes to come and the tag names not yet
\* looked up
Invocation(op, entry, a, at, end) ==
    [op |-> op, entry |-> entry, project |-> a.project, title |-> a.title,
     tags |-> a.tags, todo |-> a.tags, at |-> at, end |-> end]

NotInvoked == Invocation("none", 0, [project |-> "", title |-> "", tags |-> {}],
                         NoTime, NoTime)

Returned(inv) == [inv EXCEPT !.op = "returned"]

\* a store some commands have left: no entry, one entry started and stopped,
\* or one entry started and paused (its open pause in the pauses table)
InitRace ==
    /\ \E t \in 0..1 :
         /\ now = t
         /\ \/ /\ entries = <<>>
               /\ projects = {}
               /\ tagsTable = {}
               /\ entrySeq = 0
               /\ pauses = <<>>
               /\ pauseSeq = 0
            \/ \E a \in StartArgs :
                 /\ entries = [i \in {1} |->
                                [project |-> a.project, title |-> a.title,
                                 tags |-> a.tags, start |-> 0, end |-> t,
                                 status |-> StatusStopped]]
                 /\ projects = {a.project}
                 /\ tagsTable = a.tags
                 /\ entrySeq = 1
                 /\ pauses = <<>>
                 /\ pauseSeq = 0
            \/ \E a \in StartArgs :
                 /\ entries = [i \in {1} |->
                                [project |-> a.project, title |-> a.title,
                                 tags |-> a.tags, start |-> 0, end |-> NoTime,
                                 status |-> StatusPaused]]
                 /\ projects = {a.project}
                 /\ tagsTable = a.tags
                 /\ entrySeq = 1
                 /\ pauses = [i \in {1} |->
                               [entry |-> 1, pause |-> t, resume |-> NoTime,
                                reason |-> ReasonManual]]
                 /\ pauseSeq = 1
    /\ edits = 0
    /\ commands = 0
    /\ phase = "idle"
    /\ pending = NoPending
    /\ last = Last("none", "ok", 0)
    /\ shown = NoShown
    /\ invocations = [p \in Invocations |-> NotInvoked]

\* what a step of invocation p leaves alone besides the store
RaceFrame == UNCHANGED <<now, edits, commands, phase, pending, shown>>

\* what comes after the project is there: the tag loop, or db.CreateEntry,
\* which begins by reading the clock
AfterTag(todo) == IF todo = {} THEN "createentry" ELSE "gettag"

\* the tag name the loop of runStart looks up next
NextTag(todo) == CHOOSE name \in todo : TRUE

\* runStart: the check for a running entry
StartChecks(p) ==
    /\ invocations[p].op = "none"
    /\ \/ \E running \in GetRunningEntry(entries) :
            /\ last' = Last("start", "notice", running)
            /\ invocations' = [invocations EXCEPT ![p] = Returned(@)]
       \/ /\ GetRunningEntry(entries) = {}
          /\ \E a \in StartArgs :
               invocations' = [invocations EXCEPT
                                 ![p] = Invocation("getproject", 0, a, NoTime, NoTime)]
          /\ last' = Last("start", "checked", 0)
    /\ UNCHANGED <<entries, pauses, projects, tagsTable, entrySeq, pauseSeq>>
    /\ RaceFrame

\* db.GetOrCreateProject, its SELECT: the row is there, or an INSERT follows
StartSelectsProject(p) ==
    /\ invocations[p].op = "getproject"
    /\ invocations' = [invocations EXCEPT
                         ![p].op = IF invocations[p].project \in projects
                                   THEN AfterTag(invocations[p].todo)
                                   ELSE "insertproject"]
    /\ last' = Last("start", "getproject", 0)
    /\ UNCHANGED <<entries, pauses, projects, tagsTable, entrySeq, pauseSeq>>
    /\ RaceFrame

\* db.GetOrCreateProject, its INSERT: projects.name is UNIQUE, so the
\* statement fails when the name has been inserted since the SELECT, and
\* runStart returns the error
StartInsertsProject(p) ==
    /\ invocations[p].op = "insertproject"
    /\ IF invocations[p].project \in projects
       THEN /\ invocations' = [invocations EXCEPT ![p] = Returned(@)]
            /\ last' = [Last("start", "error", 0) EXCEPT !.args = <<"projects.name">>]
            /\ UNCHANGED projects
       ELSE /\ projects' = projects \cup {invocations[p].project}
            /\ invocations' = [invocations EXCEPT
                                 ![p].op = AfterTag(invocations[p].todo)]
            /\ last' = Last("start", "insertproject", 0)
    /\ UNCHANGED <<entries, pauses, tagsTable, entrySeq, pauseSeq>>
    /\ RaceFrame

\* db.GetOrCreateTag, its SELECT, for the next tag name
StartSelectsTag(p) ==
    /\ invocations[p].op = "gettag"
    /\ LET name == NextTag(invocations[p].todo) IN
       invocations' = [invocations EXCEPT
                         ![p] = IF name \in tagsTable
                                THEN [@ EXCEPT !.todo = @ \ {name},
                                               !.op = AfterTag(invocations[p].todo \ {name})]
                                ELSE [@ EXCEPT !.op = "inserttag"]]
    /\ last' = Last("start", "gettag", 0)
    /\ UNCHANGED <<entries, pauses, projects, tagsTable, entrySeq, pauseSeq>>
    /\ RaceFrame

\* db.GetOrCreateTag, its INSERT: tags.name is UNIQUE as well
StartInsertsTag(p) ==
    /\ invocations[p].op = "inserttag"
    /\ LET name == NextTag(invocations[p].todo) IN
       IF name \in tagsTable
       THEN /\ invocations' = [invocations EXCEPT ![p] = Returned(@)]
            /\ last' = [Last("start", "error", 0) EXCEPT !.args = <<"tags.name">>]
            /\ UNCHANGED tagsTable
       ELSE /\ tagsTable' = tagsTable \cup {name}
            /\ invocations' = [invocations EXCEPT
                                 ![p] = [@ EXCEPT !.todo = @ \ {name},
                                                  !.op = AfterTag(invocations[p].todo \ {name})]]
            /\ last' = Last("start", "inserttag", 0)
    /\ UNCHANGED <<entries, pauses, projects, entrySeq, pauseSeq>>
    /\ RaceFrame

\* runStart's db.CreateEntry, before its first statement: now := time.Now()
StartReadsClock(p) ==
    /\ invocations[p].op = "createentry"
    /\ invocations' = [invocations EXCEPT ![p].op = "insertentry", ![p].at = now]
    /\ last' = Last("start", "clock", 0)
    /\ UNCHANGED <<entries, pauses, projects, tagsTable, entrySeq, pauseSeq>>
    /\ RaceFrame

\* runStart's db.CreateEntry, its statements: the entry, with the time read
\* before, and its tag rows, in one transaction
StartWrites(p) ==
    /\ invocations[p].op = "insertentry"
    /\ entrySeq < MaxEntries
    /\ entries' = CreateEntry(entries, invocations[p].project, invocations[p].title,
                              invocations[p].tags, invocations[p].at)
    /\ last' = Last("start", "ok", NewULID(entries, entrySeq))
    /\ invocations' = [invocations EXCEPT ![p] = Returned(@)]
    /\ UNCHANGED <<pauses, projects, tagsTable>>
    /\ RaceFrame
    /\ IdsHandedOut

\* reopenEntry up to its prompt, on the entry i a resume has loaded
ReopenAsks(p, i, at) ==
    IF entries[i].status # StatusStopped
    THEN /\ invocations' = [invocations EXCEPT ![p] = Returned(@)]
         /\ last' = Last("reopen", "notstopped", i)
    ELSE /\ invocations' = [invocations EXCEPT
                              ![p] = Invocation("reopen", i, entries[i], at,
                                                entries[i].end)]
         /\ last' = Last("prompt", "ok", i)

\* runResume up to its call of resumeDefault or resumeProject: without --from
\* the start time is read from the clock, startTime = time.Now(), before any
\* database call
ResumeReadsClock(p) ==
    /\ invocations[p].op = "none"
    /\ \E next \in {"resumedefault", "resumeproject"} :
         invocations' = [invocations EXCEPT
                           ![p] = [NotInvoked EXCEPT !.op = next, !.at = now]]
    /\ last' = Last("resume", "clock", 0)
    /\ UNCHANGED <<entries, pauses, projects, tagsTable, entrySeq, pauseSeq>>
    /\ RaceFrame

\* runResume without @project, resumeDefault's db.GetRunningEntry: a running
\* entry ends the command, a paused one is to be resumed by the next call,
\* and with no active entry the last entry is looked up next
ResumeChecks(p) ==
    /\ invocations[p].op = "resumedefault"
    /\ \/ \E running \in GetRunningEntry(entries) :
            IF entries[running].status = StatusRunning
            THEN /\ invocations' = [invocations EXCEPT ![p] = Returned(@)]
                 /\ last' = Last("resume", "notice", running)
            ELSE /\ invocations' = [invocations EXCEPT ![p].op = "resumeentry",
                                                        ![p].entry = running]
                 /\ last' = Last("resume", "paused", running)
       \/ /\ GetRunningEntry(entries) = {}
          /\ invocations' = [invocations EXCEPT ![p].op = "getlast"]
          /\ last' = Last("resume", "checked", 0)
    /\ UNCHANGED <<entries, pauses, projects, tagsTable, entrySeq, pauseSeq>>
    /\ RaceFrame

\* resumeDefault's db.ResumeEntry, before its first statement: now :=
\* time.Now()
ResumeEntryReadsClock(p) ==
    /\ invocations[p].op = "resumeentry"
    /\ invocations' = [invocations EXCEPT ![p].op = "resumewrite", ![p].end = now]
    /\ last' = Last("resume", "resumeclock", invocations[p].entry)
    /\ UNCHANGED <<entries, pauses, projects, tagsTable, entrySeq, pauseSeq>>
    /\ RaceFrame

\* resumeDefault's db.ResumeEntry on the entry db.GetRunningEntry returned,
\* its statements: the open pauses of the entry are closed at the time read
\* before and its status is set to running, in one transaction, whatever the
\* entry has become
ResumeResumes(p) ==
    /\ invocations[p].op = "resumewrite"
    /\ pauses' = ResumeEntryPauses(pauses, invocations[p].entry, invocations[p].end)
    /\ entries' = ResumeEntryRow(entries, invocations[p].entry)
    /\ last' = Last("resume", "ok", invocations[p].entry)
    /\ invocations' = [invocations EXCEPT ![p] = Returned(@)]
    /\ UNCHANGED <<projects, tagsTable>>
    /\ RaceFrame
    /\ IdsHandedOut

\* resumeDefault's db.GetLastEntry, then reopenEntry up to its prompt
ResumeSelectsLast(p) ==
    /\ invocations[p].op = "getlast"
    /\ \/ /\ GetLastEntry(entries) = {}
          /\ invocations' = [invocations EXCEPT ![p] = Returned(@)]
          /\ last' = Last("resume", "nothing", 0)
       \/ \E lastEntry \in GetLastEntry(entries) :
            ReopenAsks(p, lastEntry, invocations[p].at)
    /\ UNCHANGED <<entries, pauses, projects, tagsTable, entrySeq, pauseSeq>>
    /\ RaceFrame

\* runResume @project, resumeProject's db.GetProjectByName
ResumeProjectChecks(p) ==
    /\ invocations[p].op = "resumeproject"
    /\ \E projectName \in ProjectNames :
         IF projectName \notin projects
         THEN /\ invocations' = [invocations EXCEPT ![p] = Returned(@)]
              /\ last' = Last("resumeproject", "noproject", 0)
         ELSE /\ invocations' = [invocations EXCEPT ![p].op = "getrunning",
                                                     ![p].project = projectName]
              /\ last' = Last("resumeproject", "checked", 0)
    /\ UNCHANGED <<entries, pauses, projects, tagsTable, entrySeq, pauseSeq>>
    /\ RaceFrame

\* resumeProject's db.GetRunningEntry: an active entry is to be stopped first
ResumeProjectSelectsRunning(p) ==
    /\ invocations[p].op = "getrunning"
    /\ \/ \E running \in GetRunningEntry(entries) :
            invocations' = [invocations EXCEPT ![p].op = "stopentryclock",
                                               ![p].entry = running]
       \/ /\ GetRunningEntry(entries) = {}
          /\ invocations' = [invocations EXCEPT ![p].op = "getlastentry"]
    /\ last' = Last("resumeproject", "getrunning", 0)
    /\ UNCHANGED <<entries, pauses, projects, tagsTable, entrySeq, pauseSeq>>
    /\ RaceFrame

\* db.StopEntry, before its first statement: now := time.Now()
ResumeProjectStopReadsClock(p) ==
    /\ invocations[p].op = "stopentryclock"
    /\ invocations' = [invocations EXCEPT ![p].op = "stoppauses", ![p].end = now]
    /\ last' = Last("resumeproject", "stopclock", invocations[p].entry)
    /\ UNCHANGED <<entries, pauses, projects, tagsTable, entrySeq, pauseSeq>>
    /\ RaceFrame

\* db.StopEntry, its first statement: the open pauses of the entry are closed
\* at the time read before
ResumeProjectStopsPauses(p) ==
    /\ invocations[p].op = "stoppauses"
    /\ pauses' = StopEntryPauses(pauses, invocations[p].entry, invocations[p].end)
    /\ invocations' = [invocations EXCEPT ![p].op = "stopentry"]
    /\ last' = Last("resumeproject", "stoppauses", invocations[p].entry)
    /\ UNCHANGED <<entries, projects, tagsTable>>
    /\ RaceFrame
    /\ IdsHandedOut

\* db.StopEntry, its second statement, with the same time
ResumeProjectStopsEntry(p) ==
    /\ invocations[p].op = "stopentry"
    /\ entries' = StopEntryRow(entries, invocations[p].entry, invocations[p].end)
    /\ invocations' = [invocations EXCEPT ![p].op = "getlastentry", ![p].entry = 0,
                                          ![p].end = NoTime]
    /\ last' = Last("resumeproject", "stopped", invocations[p].entry)
    /\ UNCHANGED <<pauses, projects, tagsTable>>
    /\ RaceFrame
    /\ IdsHandedOut

\* resumeProject's db.GetLastEntry: the last entry of the store, when it is of
\* the project, goes to reopenEntry; otherwise the project's last entry is
\* looked up next
ResumeProjectSelectsLast(p) ==
    /\ invocations[p].op = "getlastentry"
    /\ \/ \E lastEntry \in GetLastEntry(entries) :
            /\ entries[lastEntry].project = invocations[p].project
            /\ ReopenAsks(p, lastEntry, invocations[p].at)
       \/ /\ \/ GetLastEntry(entries) = {}
             \/ \E lastEntry \in GetLastEntry(entries) :
                  entries[lastEntry].project # invocations[p].project
          /\ invocations' = [invocations EXCEPT ![p].op = "getlastforproject"]
          /\ last' = Last("resumeproject", "getlastentry", 0)
    /\ UNCHANGED <<entries, pauses, projects, tagsTable, entrySeq, pauseSeq>>
    /\ RaceFrame

\* resumeProject's db.GetLastEntryForProject: the entry to clone
ResumeProjectSelectsSource(p) ==
    /\ invocations[p].op = "getlastforproject"
    /\ \/ /\ GetLastEntryForProject(entries, invocations[p].project) = {}
          /\ invocations' = [invocations EXCEPT ![p] = Returned(@)]
          /\ last' = Last("resumeproject", "notfound", 0)
       \/ \E src \in GetLastEntryForProject(entries, invocations[p].project) :
            /\ invocations' = [invocations EXCEPT
                                 ![p] = Invocation("clone", src, entries[src],
                                                   invocations[p].at, NoTime)]
            /\ last' = Last("clone", "checked", src)
    /\ UNCHANGED <<entries, pauses, projects, tagsTable, entrySeq, pauseSeq>>
    /\ RaceFrame

\* reopenEntry from its prompt on: any answer but y or yes ends the command;
\* otherwise db.CreatePause stores the gap pause of the entry loaded before
\* the prompt (when it had an end_time)
ReopenCreatesPause(p) ==
    /\ invocations[p].op = "reopen"
    /\ \E input \in Answers :
         IF ~Confirmed(input)
         THEN /\ invocations' = [invocations EXCEPT ![p] = Returned(@)]
              /\ last' = [Last("reopen", "cancelled", invocations[p].entry)
                            EXCEPT !.input = input]
              /\ UNCHANGED pauses
         ELSE /\ invocations' = [invocations EXCEPT ![p].op = "reopenentry"]
              /\ last' = [Last("reopen", "answered", invocations[p].entry)
                            EXCEPT !.input = input]
              /\ IF invocations[p].end # NoTime
                 THEN /\ pauseSeq < MaxPauses
                      /\ pauses' = CreatePause(pauses, invocations[p].entry,
                                               invocations[p].end, invocations[p].at,
                                               ReasonManual)
                 ELSE UNCHANGED pauses
    /\ UNCHANGED <<entries, projects, tagsTable>>
    /\ RaceFrame
    /\ IdsHandedOut

\* reopenEntry's db.ReopenEntry, on the entry loaded before the prompt
ReopenWrites(p) ==
    /\ invocations[p].op = "reopenentry"
    /\ entries' = ReopenEntry(entries, invocations[p].entry)
    /\ last' = Last("reopen", "ok", invocations[p].entry)
    /\ invocations' = [invocations EXCEPT ![p] = Returned(@)]
    /\ UNCHANGED <<pauses, projects, tagsTable>>
    /\ RaceFrame
    /\ IdsHandedOut

\* resumeProject's db.CreateEntryAt: the clone of the entry loaded before
CloneWrites(p) ==
    /\ invocations[p].op = "clone"
    /\ entrySeq < MaxEntries
    /\ entries' = CreateEntryAt(entries, invocations[p].project, invocations[p].title,
                                invocations[p].tags, invocations[p].at)
    /\ last' = Last("clone", "ok", invocations[p].entry)
    /\ invocations' = [invocations EXCEPT ![p] = Returned(@)]
    /\ UNCHANGED <<pauses, projects, tagsTable>>
    /\ RaceFrame
    /\ IdsHandedOut

\* the wall clock advances between two calls
TickRace ==
    /\ now < MaxTime
    /\ now' = now + 1
    /\ UNCHANGED <<entries, pauses, projects, tagsTable, entrySeq, pauseSeq,
                   edits, commands, phase, pending, last, shown, invocations>>

NextRace ==
    \/ TickRace
    \/ \E p \in Invocations : StartChecks(p)
    \/ \E p \in Invocations : StartSelectsProject(p)
    \/ \E p \in Invocations : StartInsertsProject(p)
    \/ \E p \in Invocations : StartSelectsTag(p)
    \/ \E p \in Invocations : StartInsertsTag(p)
    \/ \E p \in Invocations : StartReadsClock(p)
    \/ \E p \in Invocations : StartWrites(p)
    \/ \E p \in Invocations : ResumeReadsClock(p)
    \/ \E p \in Invocations : ResumeChecks(p)
    \/ \E p \in Invocations : ResumeEntryReadsClock(p)
    \/ \E p \in Invocations : ResumeResumes(p)
    \/ \E p \in Invocations : ResumeSelectsLast(p)
    \/ \E p \in Invocations : ResumeProjectChecks(p)
    \/ \E p \in Invocations : ResumeProjectSelectsRunning(p)
    \/ \E p \in Invocations : ResumeProjectStopReadsClock(p)
    \/ \E p \in Invocations : ResumeProjectStopsPauses(p)
    \/ \E p \in Invocations : ResumeProjectStopsEntry(p)
    \/ \E p \in Invocations : ResumeProjectSelectsLast(p)
    \/ \E p \in Invocations : ResumeProjectSelectsSource(p)
    \/ \E p \in Invocations : ReopenCreatesPause(p)
    \/ \E p \in Invocations : ReopenWrites(p)
    \/ \E p \in Invocations : CloneWrites(p)

RaceSpec == InitRace /\ [][NextRace]_vars

\* ------------------------------------------------ the pairing of a power log
\* a running entry started at time 0 or 1 and a power log of up to MaxPairing
\* matched lines, the last no later than MaxPairingTime; the log is in last.args
InitPairing ==
    /\ now = MaxPairingTime
    /\ \E t \in 0..1 :
         entries = [i \in {1} |->
                      [project |-> "work", title |-> "", tags |-> {},
                       start |-> t, end |-> NoTime, status |-> StatusRunning]]
    /\ projects = {"work"}
    /\ tagsTable = {}
    /\ pauses = <<>>
    /\ entrySeq = 1
    /\ pauseSeq = 0
    /\ edits = 0
    /\ commands = 0
    /\ phase = "idle"
    /\ pending = NoPending
    /\ \E log \in PowerLogsFrom(0, MaxPairing) :
         last = [Last("pmset", "read", 1) EXCEPT !.args = <<log>>]
    /\ shown = NoShown
    /\ invocations = <<>>

\* getSleepPeriodsSince(entry.StartTime): the periods parsePmsetLog builds from
\* the log are put in last.args, after the log
getSleepPeriodsSince ==
    /\ last.res = "read"
    /\ last' = [last EXCEPT
                  !.res = "parsed",
                  !.args = <<last.args[1],
                             parsePmsetLog(last.args[1], entries[last.id].start)>>]
    /\ UNCHANGED <<entries, pauses, projects, tagsTable, now, entrySeq,
                   pauseSeq, edits, commands, phase, pending, shown, invocations>>

NextPairing == getSleepPeriodsSince

PairingSpec == InitPairing /\ [][NextPairing]_vars

\* ------------------------------------------------------------------- claims
\* a handler of the command named op ends, or begins to wait for its user,
\* in this step
Ran(op) == phase = "run" /\ last'.op = op

\* a command that waited for its user goes on in this step
Resumed == phase = "idle" /\ Len(invocations') < Len(invocations)

\* tally edit reads the document back and writes the store in this step
EditSaved == Resumed /\ last'.op = "edit"

\* tally delete ends in this step: with -f, or after the answer at its prompt
DeleteEnded ==
    /\ last'.op = "delete"
    /\ \/ Resumed
       \/ Ran("delete") /\ last'.res # "prompt"

\* the rows of table after that were not in table before
Added(before, after) == DOMAIN after \ DOMAIN before

\* every row of before is in after, as it was
Kept(before, after) ==
    /\ DOMAIN before \subseteq DOMAIN after
    /\ \A x \in DOMAIN before : after[x] = before[x]

\* C1: in every state reached by commands run one at a time, at most one
\* entry of the store is running or paused.
C1_SingleActiveEntry == Cardinality(ActiveIds(entries)) <= 1

\* C1 witness: resume @project has stopped the running entry and cloned an
\* older one; the store holds several entries, exactly one of them active.
C1_Witness ==
    /\ last.op = "clone"
    /\ last.res = "stopped"
    /\ Cardinality(DOMAIN entries) = MaxEntries
    /\ Cardinality(ActiveIds(entries)) = 1

\* C2 (amended): start while an entry is running or paused prints a notice,
\* returns no error and leaves the store as it was; start with no active
\* entry adds exactly one entry, running, with start_time = now, and changes
\* no other entry.
C2_Start ==
    [][Ran("start") =>
        IF ActiveIds(entries) # {}
        THEN /\ last'.res = "notice"
             /\ entries' = entries
             /\ pauses' = pauses
        ELSE /\ last'.res = "ok"
             /\ Cardinality(Added(entries, entries')) = 1
             /\ Kept(entries, entries')
             /\ pauses' = pauses
             /\ \A i \in Added(entries, entries') :
                   /\ entries'[i].status = StatusRunning
                   /\ entries'[i].start = now
                   /\ entries'[i].end = NoTime]_vars

\* C2 as stated: start while an entry is active fails with an error and
\* creates no entry.
C2_StartConflictError ==
    [][(Ran("start") /\ ActiveIds(entries) # {}) =>
        (last'.res = "error" /\ entries' = entries)]_vars

\* C2 witness: start was refused with its notice while an entry was paused.
C2_Witness ==
    /\ last.op = "start"
    /\ last.res = "notice"
    /\ now > 0
    /\ \E i \in DOMAIN entries : entries[i].status = StatusPaused

\* C3: pause on a running entry adds exactly one pause, open, with
\* pause_time = now, owned by that entry, changes no other pause and sets the
\* status to paused; pause on a paused entry leaves the store as it was.
C3_Pause ==
    [][Ran("pause") =>
        \A id \in ActiveIds(entries) :
           IF entries[id].status = StatusRunning
           THEN /\ last'.res = "ok"
                /\ Cardinality(Added(pauses, pauses')) = 1
                /\ Kept(pauses, pauses')
                /\ \A p \in Added(pauses, pauses') :
                      /\ pauses'[p].entry = id
                      /\ pauses'[p].pause = now
                      /\ pauses'[p].resume = NoTime
                /\ entries' = [entries EXCEPT ![id].status = StatusPaused]
           ELSE /\ last'.res = "notice"
                /\ entries' = entries
                /\ pauses' = pauses]_vars

\* C3 witness: pause has paused a running entry that already had a pause.
C3_Witness ==
    /\ last.op = "pause"
    /\ last.res = "ok"
    /\ entries[last.id].status = StatusPaused
    /\ Cardinality(PausesOf(pauses, last.id)) >= 2
    /\ \E p \in OpenPausesOf(pauses, last.id) : pauses[p].pause = now

\* C4: resume on a paused entry sets resume_time = now on the open pauses of
\* the entry, changes no other pause, creates and deletes none, and sets the
\* status to running; resume on a running entry leaves the store as it was.
C4_Resume ==
    [][(Ran("resume") /\ last'.res # "error") =>
        \A id \in ActiveIds(entries) :
           IF entries[id].status = StatusPaused
           THEN /\ last'.res = "ok"
                /\ DOMAIN pauses' = DOMAIN pauses
                /\ \A p \in DOMAIN pauses :
                      pauses'[p] = IF p \in OpenPausesOf(pauses, id)
                                   THEN [pauses[p] EXCEPT !.resume = now]
                                   ELSE pauses[p]
                /\ entries' = [entries EXCEPT ![id].status = StatusRunning]
           ELSE /\ last'.res = "notice"
                /\ entries' = entries
                /\ pauses' = pauses]_vars

\* C4 witness: resume has closed, later than it was opened, the pause of a
\* paused entry.
C4_Witness ==
    /\ last.op = "resume"
    /\ last.res = "ok"
    /\ entries[last.id].status = StatusRunning
    /\ \E p \in PausesOf(pauses, last.id) :
          /\ pauses[p].resume = now
          /\ pauses[p].pause < now

\* C5: stop on a running or paused entry leaves it stopped with end_time = now
\* and no open pause, each pause that was open getting resume_time = now and
\* no other pause changing; stop with no active entry leaves the store as it
\* was.
C5_Stop ==
    [][Ran("stop") =>
        IF ActiveIds(entries) = {}
        THEN entries' = entries /\ pauses' = pauses
        ELSE \A id \in ActiveIds(entries) :
                /\ entries' = [entries EXCEPT ![id].status = StatusStopped,
                                              ![id].end = now]
                /\ OpenPausesOf(pauses', id) = {}
                /\ DOMAIN pauses' = DOMAIN pauses
                /\ \A p \in DOMAIN pauses :
                      pauses'[p] = IF p \in OpenPausesOf(pauses, id)
                                   THEN [pauses[p] EXCEPT !.resume = now]
                                   ELSE pauses[p]]_vars

\* C5 witness: stop has stopped a paused entry and closed its pause.
C5_Witness ==
    /\ last.op = "stop"
    /\ last.res = "ok"
    /\ entries[last.id].status = StatusStopped
    /\ entries[last.id].end = now
    /\ \E p \in PausesOf(pauses, last.id) :
          /\ pauses[p].resume = now
          /\ pauses[p].pause < now
          /\ pauses[p].reason = ReasonManual

\* C6: reopen of a stopped entry, once confirmed, adds exactly one pause, closed,
\* from the entry's end_time to the reopen time, reason Manual, owned by the
\* entry; it changes and deletes no pause; it clears end_time and sets the
\* status to running.
C6_Reopen ==
    [][(phase = "prompt" /\ last'.op = "reopen" /\ last'.res = "ok") =>
        LET id == pending.entry IN
        /\ entries[id].status = StatusStopped
        /\ Cardinality(Added(pauses, pauses')) = 1
        /\ Kept(pauses, pauses')
        /\ \A p \in Added(pauses, pauses') :
              pauses'[p] = [entry |-> id, pause |-> entries[id].end,
                            resume |-> pending.at, reason |-> ReasonManual]
        /\ entries' = [entries EXCEPT ![id].end = NoTime,
                                      ![id].status = StatusRunning]]_vars

\* C6 witness: an entry that had a pause was reopened later than it ended.
C6_Witness ==
    /\ last.op = "reopen"
    /\ last.res = "ok"
    /\ entries[last.id].status = StatusRunning
    /\ entries[last.id].end = NoTime
    /\ Cardinality(PausesOf(pauses, last.id)) >= 2
    /\ \E p \in PausesOf(pauses, last.id) :
          /\ pauses[p].reason = ReasonManual
          /\ pauses[p].resume = now
          /\ pauses[p].pause < now

\* C7: while reopen waits at its prompt the candidate entry is stopped, and an
\* answer other than y or yes (in any case) leaves every entry and every pause
\* as it was.
C7_ReopenAsksFirst ==
    [][(phase = "prompt" /\ last'.input \notin {"y", "Yes"}) =>
        /\ last'.op = "reopen"
        /\ last'.res = "cancelled"
        /\ entries[pending.entry].status = StatusStopped
        /\ entries' = entries
        /\ pauses' = pauses]_vars

\* C7 witness: the prompt of a stopped entry that has a pause was declined.
C7_Witness ==
    /\ last.op = "reopen"
    /\ last.res = "cancelled"
    /\ last.input = ""
    /\ entries[last.id].status = StatusStopped
    /\ entries[last.id].end # NoTime
    /\ PausesOf(pauses, last.id) # {}

\* the time the closed pauses ids take, and the time the open ones take up to t
RECURSIVE ClosedPauseTime(_, _)
ClosedPauseTime(ps, ids) ==
    IF ids = {} THEN 0
    ELSE LET p == CHOOSE x \in ids : TRUE
         IN (ps[p].resume - ps[p].pause) + ClosedPauseTime(ps, ids \ {p})

RECURSIVE OpenPauseTime(_, _, _)
OpenPauseTime(ps, ids, t) ==
    IF ids = {} THEN 0
    ELSE LET p == CHOOSE x \in ids : TRUE
         IN (t - ps[p].pause) + OpenPauseTime(ps, ids \ {p}, t)

DurationFormula(es, ps, id, t) ==
    (IF es[id].end # NoTime THEN es[id].end ELSE t) - es[id].start
    - ClosedPauseTime(ps, PausesOf(ps, id) \ OpenPausesOf(ps, id))
    - (IF es[id].status = StatusPaused THEN OpenPauseTime(ps, OpenPausesOf(ps, id), t)
       ELSE 0)

\* C8: for every entry, pause list and reference time, the duration is
\* (end_time if present, else now) - start_time, minus resume_time - pause_time
\* of each closed pause, minus now - pause_time of each open pause when and
\* only when the entry is paused.
C8_DurationFormula ==
    shown # NoShown =>
        shown.duration = DurationFormula(entries, pauses, shown.entry, shown.at)

\* C8 witness: the duration was computed, late, for a paused entry that has
\* an open pause and a closed pause of some length.
C8_Witness ==
    /\ shown # NoShown
    /\ shown.at = MaxTime - 1
    /\ entries[shown.entry].status = StatusPaused
    /\ OpenPausesOf(pauses, shown.entry) # {}
    /\ \E p \in PausesOf(pauses, shown.entry) :
          pauses[p].resume # NoTime /\ pauses[p].resume > pauses[p].pause

\* C9 as stated: the duration of every entry of the store, at the clock's
\* time, is never negative.
C9_DurationNonNegative ==
    \A id \in DOMAIN entries : Duration(entries, pauses, id, now) >= 0

\* C10 as stated: from the clock's time on, with the store left alone, the
\* duration of a running entry never decreases, and that of a paused or of a
\* stopped entry does not change.
C10_DurationOverTime ==
    \A id \in DOMAIN entries : \A t \in now..(MaxTime - 1) :
        LET before == Duration(entries, pauses, id, t)
            after == Duration(entries, pauses, id, t + 1)
        IN IF entries[id].status = StatusRunning THEN after >= before
           ELSE after = before


\* C11: when entries are only started, paused, resumed and stopped, the duration
\* of a stopped entry is (stop time - start time) minus resume time - pause time
\* of each pause/resume pair: the duration starts at zero, grows with the clock
\* while the entry is running and only then, and once the entry is stopped it
\* is end_time - start_time minus the pauses, all of them closed.
C11_LifecycleDuration ==
    /\ [](\A id \in DOMAIN entries :
            entries[id].status = StatusStopped =>
              /\ OpenPausesOf(pauses, id) = {}
              /\ \A p \in PausesOf(pauses, id) :
                    /\ entries[id].start <= pauses[p].pause
                    /\ pauses[p].pause <= pauses[p].resume
                    /\ pauses[p].resume <= entries[id].end
              /\ \A t \in Times :
                    Duration(entries, pauses, id, t) =
                      (entries[id].end - entries[id].start)
                      - ClosedPauseTime(pauses, PausesOf(pauses, id)))
    /\ [][\A id \in DOMAIN entries' :
            Duration(entries', pauses', id, now') =
              IF id \notin DOMAIN entries THEN 0
              ELSE Duration(entries, pauses, id, now)
                   + (IF entries[id].status = StatusRunning THEN now' - now ELSE 0)]_vars

\* C11 witness: an entry started at 0, paused at 1, resumed at 2 and stopped at
\* 3 has a duration of 2.
C11_Witness ==
    \E id \in DOMAIN entries :
        /\ entries[id].status = StatusStopped
        /\ entries[id].start = 0
        /\ entries[id].end = MaxTime
        /\ \E p \in PausesOf(pauses, id) :
              /\ PausesOf(pauses, id) = {p}
              /\ pauses[p].pause = 1
              /\ pauses[p].resume = 2
        /\ Duration(entries, pauses, id, now) = MaxTime - 1


\* the instants of a historical pause: --from as typed, --to as typed or the
\* clock's time when it is not given
HistoricalFrom(args) == args[1]

HistoricalTo(args, t) == IF args[2] = NoTime THEN t ELSE args[2]

\* C12: a historical pause [from, to] inserted into a running entry that has
\* no pause leaves the entry running and lowers its duration, at every
\* reference time from to on, by exactly to - from.
C12_HistoricalPauseLowersDuration ==
    [][(/\ Ran("pausehist")
        /\ last'.res = "ok"
        /\ entries[last'.id].status = StatusRunning
        /\ PausesOf(pauses, last'.id) = {})
       => LET id == last'.id
              from == HistoricalFrom(last'.args)
              to == HistoricalTo(last'.args, now)
          IN /\ entries'[id].status = StatusRunning
             /\ \A t \in Times :
                   t >= to => Duration(entries', pauses', id, t) =
                                Duration(entries, pauses, id, t) - (to - from)]_vars

\* C12 witness: a historical pause of some length went into a running entry
\* that had no pause, and the clock has moved on since.
C12_Witness ==
    /\ last.op = "pausehist"
    /\ last.res = "ok"
    /\ last.args[1] = 0
    /\ entries[last.id].status = StatusRunning
    /\ \E p \in PausesOf(pauses, last.id) :
          /\ PausesOf(pauses, last.id) = {p}
          /\ pauses[p].resume - pauses[p].pause = Minute
          /\ now > pauses[p].resume


\* tally pause was given --from, and its handler ends in this step
RanHistoricalPause ==
    /\ phase = "run"
    /\ last'.op \in {"pause", "pausehist"}
    /\ last'.args # <<>>

\* the flags are well-formed instants with from >= start_time and to >= from
ValidHistoricalPause(es, id, args, t) ==
    /\ BadTime \notin {args[1], args[2]}
    /\ HistoricalFrom(args) >= es[id].start
    /\ HistoricalTo(args, t) >= HistoricalFrom(args)

\* one closed Manual pause [from, to] of entry id is added; nothing else changes
HistoricalPauseInserted(id, args) ==
    /\ last'.res = "ok"
    /\ entries' = entries
    /\ Kept(pauses, pauses')
    /\ \E p \in Added(pauses, pauses') :
          /\ Added(pauses, pauses') = {p}
          /\ pauses'[p] = [entry |-> id, pause |-> HistoricalFrom(args),
                           resume |-> HistoricalTo(args, now), reason |-> ReasonManual]

\* C13 as stated: a historical pause with from >= start_time and to >= from is
\* inserted, closed, whatever the status of the entry, stopped included: the
\* entry need not be active.  The entry is the active one, or the latest one
\* when none is active.
C13_HistoricalPauseAnyStatus ==
    [][RanHistoricalPause =>
        \A id \in (IF ActiveIds(entries) # {} THEN ActiveIds(entries)
                    ELSE GetLastEntry(entries)) :
            ValidHistoricalPause(entries, id, last'.args, now) =>
                HistoricalPauseInserted(id, last'.args)]_vars

\* C13 amended: the historical pause goes to the active entry, running or
\* paused, as one closed pause, and the entry is left as it was; when no entry
\* is active nothing is inserted and the command ends without an error.
C13_HistoricalPauseActiveOnly ==
    [][RanHistoricalPause =>
        IF ActiveIds(entries) = {}
        THEN /\ last'.res = "norunning"
             /\ entries' = entries
             /\ pauses' = pauses
        ELSE \A id \in ActiveIds(entries) :
               ValidHistoricalPause(entries, id, last'.args, now) =>
                   HistoricalPauseInserted(id, last'.args)]_vars

\* C13 witness: a paused entry received a historical pause and is still paused,
\* its open pause still open.
C13_Witness ==
    /\ last.op = "pausehist"
    /\ last.res = "ok"
    /\ entries[last.id].status = StatusPaused
    /\ OpenPausesOf(pauses, last.id) # {}
    /\ \E p \in PausesOf(pauses, last.id) :
          /\ pauses[p].resume # NoTime
          /\ pauses[p].pause = last.args[1]


\* C14: a historical pause whose from is before the entry's start_time, or
\* whose to is before its from, is rejected with an error, and the store is
\* left exactly as it was.
C14_HistoricalPauseRejected ==
    [][RanHistoricalPause =>
        \A id \in ActiveIds(entries) :
            LET args == last'.args IN
            (/\ args[1] # BadTime
             /\ \/ HistoricalFrom(args) < entries[id].start
                \/ /\ args[2] # BadTime
                   /\ HistoricalTo(args, now) < HistoricalFrom(args))
            => /\ last'.res = "error"
               /\ entries' = entries
               /\ pauses' = pauses
               /\ projects' = projects]_vars

\* C14 witness: a historical pause that starts after the entry did and ends
\* before it starts was rejected.
C14_Witness ==
    /\ last.op = "pausehist"
    /\ last.res = "error"
    /\ BadTime \notin {last.args[1], last.args[2]}
    /\ last.args[2] # NoTime
    /\ last.args[2] < last.args[1]
    /\ last.args[1] > entries[last.id].start


\* C15 as stated: in every reachable state every pause that has a resume_time
\* has resume_time >= pause_time, whichever operation created or changed it:
\* reopen, historical insertion, gap reconciliation or bulk edit.
C15_ResumeNotBeforePause ==
    \A p \in DOMAIN pauses :
        pauses[p].resume # NoTime => pauses[p].resume >= pauses[p].pause


\* C16 as stated: in every reachable state every pause has a pause_time at or
\* after the start_time of the entry that owns it, also after an edit has
\* changed that start_time.
C16_PauseNotBeforeStart ==
    \A p \in DOMAIN pauses :
        pauses[p].entry \in DOMAIN entries =>
            pauses[p].pause >= entries[pauses[p].entry].start

\* C17 as stated: in every reachable state an entry has at most one open
\* pause, and an entry that has an open pause is paused.
C17_OpenPauseOnlyWhilePaused ==
    \A id \in DOMAIN entries :
        /\ Cardinality(OpenPausesOf(pauses, id)) <= 1
        /\ OpenPausesOf(pauses, id) # {} => entries[id].status = StatusPaused

\* C18 as stated: in every reachable state an entry has an end_time exactly
\* when its status is stopped, also after an edit that gives or omits the
\* end_time and after a reopen.
C18_EndTimeIffStopped ==
    \A id \in DOMAIN entries :
        entries[id].end # NoTime <=> entries[id].status = StatusStopped


\* the sleep check of an active entry ends in this step
SleepChecked == phase = "idle" /\ last'.op = "precheck" /\ last'.id # NoId

\* the events of a power log that the sleep check of entry id keeps
SleepEvents(log, id) == EventsSince(log, entries[id].start)

\* C19 as stated: whatever the event stream and the pauses of the active
\* entry, every pause the sleep check creates is closed, ends strictly after
\* the latest resume_time of the closed pauses there were and lasts a minute
\* or more; and a system sleep of a minute or more that begins after that
\* resume_time, alone in the stream, becomes exactly one SystemSleep pause.
C19_GapReconciliation ==
    [][SleepChecked =>
        LET id == last'.id
            log == SleepEvents(last'.args, id)
            lastPauseEnd == LastPauseEnd(pauses, id)
            new == Added(pauses, pauses')
        IN /\ Kept(pauses, pauses')
           /\ \A p \in new :
                 /\ pauses'[p].entry = id
                 /\ pauses'[p].resume # NoTime
                 /\ pauses'[p].resume > lastPauseEnd
                 /\ pauses'[p].resume - pauses'[p].pause >= Minute
           /\ (/\ Len(log) = 2
               /\ log[1].isStart /\ log[1].isSystem
               /\ ~log[2].isStart
               /\ log[1].time > lastPauseEnd
               /\ log[2].time - log[1].time >= Minute)
              => \E p \in new :
                    /\ new = {p}
                    /\ pauses'[p] = [entry |-> id, pause |-> log[1].time,
                                     resume |-> log[2].time,
                                     reason |-> ReasonSystemSleep]]_vars


\* the gap-start events of the candidate interval that event c of log closes:
\* those after the gap-end that precedes c, if any
GapStarts(log, c) ==
    {k \in 1..(c - 1) :
        /\ log[k].isStart
        /\ \A m \in (k + 1)..(c - 1) : log[m].isStart}

GapOpener(log, c) == CHOOSE k \in GapStarts(log, c) : \A m \in GapStarts(log, c) : k <= m

\* the gap-end events of log that close a gap: a gap-start comes right before
\* them, or before the gap-starts that come right before them
GapClosers(log) == {c \in 1..Len(log) : ~log[c].isStart /\ GapStarts(log, c) # {}}

\* the candidate interval that event c closes is one the sleep check has to
\* record: it lasts a minute or more and ends after lastPauseEnd
ToRecord(log, c, lastPauseEnd) ==
    /\ log[c].time - log[GapOpener(log, c)].time >= Minute
    /\ log[c].time > lastPauseEnd

\* C20 as stated: of the candidate intervals the sleep check has to record,
\* one that a Display gap-start opened and in which a System gap-start arrived
\* before the closing gap-end is recorded as a pause with reason SystemSleep,
\* and one made of Display events only is recorded as a pause with reason
\* DisplayOff; and every pause the sleep check records is a candidate interval
\* of the stream and is DisplayOff only when no System gap-start lies in it, so
\* never when a System gap-start opened it.
C20_GapClassification ==
    [][SleepChecked =>
        LET id == last'.id
            log == SleepEvents(last'.args, id)
            lastPauseEnd == LastPauseEnd(pauses, id)
            new == Added(pauses, pauses')
            Recorded(c, reason) ==
                \E p \in new :
                   pauses'[p] = [entry |-> id,
                                 pause |-> log[GapOpener(log, c)].time,
                                 resume |-> log[c].time,
                                 reason |-> reason]
        IN /\ \A c \in GapClosers(log) :
                 /\ (/\ ToRecord(log, c, lastPauseEnd)
                     /\ ~log[GapOpener(log, c)].isSystem
                     /\ \E k \in GapStarts(log, c) : log[k].isSystem)
                    => Recorded(c, ReasonSystemSleep)
                 /\ (/\ ToRecord(log, c, lastPauseEnd)
                     /\ ~log[c].isSystem
                     /\ \A k \in GapStarts(log, c) : ~log[k].isSystem)
                    => Recorded(c, ReasonDisplayOff)
           /\ \A p \in new :
                 \E c \in GapClosers(log) :
                    /\ pauses'[p].pause = log[GapOpener(log, c)].time
                    /\ pauses'[p].resume = log[c].time
                    /\ pauses'[p].reason =
                          IF \E k \in GapStarts(log, c) : log[k].isSystem
                          THEN ReasonSystemSleep ELSE ReasonDisplayOff]_vars


\* C21: when the power log cannot be read, the sleep check creates no pause
\* and changes nothing in the store, as a check of an empty log would, a
\* warning is all that is reported, and the handler of the command runs next.
C21_SignalSourceFailure ==
    [][(phase = "idle" /\ last'.op = "precheck" /\ last'.res = "warning") =>
        /\ phase' = "run"
        /\ entries' = entries
        /\ projects' = projects
        /\ pauses' = pauses
        /\ pauses' = CreatePausesForSleep(pauses, last'.id,
                         SleepPausesFor(pauses, entries, last'.id, <<>>), 1)]_vars

\* C21 witness: the power log could not be read while an entry had been
\* running for a minute, and the handler of the command is about to run.
C21_Witness ==
    /\ last.op = "precheck"
    /\ last.res = "warning"
    /\ phase = "run"
    /\ entries[last.id].status = StatusRunning
    /\ now - entries[last.id].start >= Minute
    /\ PausesOf(pauses, last.id) = {}


\* a handler of tally resume ends, or stops at its prompt, in this step; it
\* was given the @project last'.args[1] ("" for none) and a well-formed time
RanResume ==
    /\ phase = "run"
    /\ last'.op \in {"resume", "prompt", "reopen", "clone", "resumeproject"}
    /\ last'.args[2] # BadTime

\* C22: tally resume without @project, while an entry is active, acts on that
\* entry in place and creates no entry: a running entry and the whole store
\* stay as they were; a paused entry becomes running and its open pause is
\* closed at the clock's time, nothing else changing.
C22_ResumeInPlace ==
    [][(RanResume /\ last'.args[1] = "") =>
        \A id \in ActiveIds(entries) :
           /\ phase' = "idle"
           /\ projects' = projects
           /\ IF entries[id].status = StatusRunning
              THEN entries' = entries /\ pauses' = pauses
              ELSE /\ entries' = [entries EXCEPT ![id].status = StatusRunning]
                   /\ pauses' = [p \in DOMAIN pauses |->
                                   IF pauses[p].entry = id /\ pauses[p].resume = NoTime
                                   THEN [pauses[p] EXCEPT !.resume = now]
                                   ELSE pauses[p]]]_vars

\* C22 witness: tally resume without @project found a paused entry; the entry
\* runs again and its pause, closed, has taken a unit of time.
C22_Witness ==
    /\ last.op = "resume"
    /\ last.res = "ok"
    /\ last.args[1] = ""
    /\ entries[last.id].status = StatusRunning
    /\ DOMAIN entries = {last.id}
    /\ \E p \in PausesOf(pauses, last.id) :
          pauses[p].resume # NoTime /\ pauses[p].resume > pauses[p].pause


\* the entries created last (identifiers are handed out in increasing order)
\* and the entries that started last
MostRecentlyCreated(es) == {i \in DOMAIN es : \A j \in DOMAIN es : j <= i}

LatestStarted(es) == {i \in DOMAIN es : \A j \in DOMAIN es : es[j].start <= es[i].start}

\* tally resume without @project, no entry being active, either finds no
\* entry and says so, or offers one of the entries of candidates, which is
\* stopped, for reopening at the given time; the store is as it was
ResumeOffers(candidates) ==
    /\ entries' = entries
    /\ pauses' = pauses
    /\ projects' = projects
    /\ IF DOMAIN entries = {}
       THEN /\ phase' = "idle"
            /\ last'.op = "resume"
            /\ last'.res = "nothing"
       ELSE /\ phase' = "prompt"
            /\ pending'.entry \in candidates
            /\ entries[pending'.entry].status = StatusStopped
            /\ pending'.at = last'.args[2]

\* once the prompt is answered, the entry offered is reopened when, and only
\* when, the answer confirms
ReopensOnConfirmation ==
    phase = "prompt" =>
        IF last'.input \in {"y", "Yes"}
        THEN /\ entries' = [entries EXCEPT ![pending.entry].status = StatusRunning,
                                            ![pending.entry].end = NoTime]
             /\ Kept(pauses, pauses')
        ELSE entries' = entries /\ pauses' = pauses

\* C23 as stated: tally resume without @project, no entry being active, offers
\* the entry created last, which is stopped, and reopens it once confirmed;
\* with no entry in the store it reports that there is nothing to resume and
\* changes nothing.
C23_ResumeLastCreated ==
    [][/\ (RanResume /\ last'.args[1] = "" /\ ActiveIds(entries) = {})
            => ResumeOffers(MostRecentlyCreated(entries))
       /\ ReopensOnConfirmation]_vars

\* C23 amended: the entry offered is the one with the latest start_time,
\* whenever it was created.
C23_ResumeLatestStarted ==
    [][/\ (RanResume /\ last'.args[1] = "" /\ ActiveIds(entries) = {})
            => ResumeOffers(LatestStarted(entries))
       /\ ReopensOnConfirmation]_vars

\* C23 witness: of two stopped entries the one created first started last, and
\* tally resume without @project offers it.
C23_Witness ==
    /\ phase = "prompt"
    /\ last.args[1] = ""
    /\ pending.entry \notin MostRecentlyCreated(entries)
    /\ \A j \in DOMAIN entries :
          /\ entries[j].status = StatusStopped
          /\ j # pending.entry => entries[j].start < entries[pending.entry].start


\* C24: tally resume @project, the project being known and an entry of any
\* project being active, stops that entry (status stopped, end_time set, open
\* pauses closed) before it reopens or clones anything: while the reopen
\* prompt waits no entry is active, and after a clone the clone alone is.
C24_ResumeProjectStopsFirst ==
    [][(RanResume /\ last'.args[1] \in projects) =>
        \A id \in ActiveIds(entries) :
           /\ entries'[id] = [entries[id] EXCEPT !.status = StatusStopped, !.end = now']
           /\ OpenPausesOf(pauses', id) = {}
           /\ \A p \in OpenPausesOf(pauses, id) : pauses'[p].resume = now'
           /\ ActiveIds(entries') \subseteq Added(entries, entries')
           /\ Cardinality(ActiveIds(entries')) <= 1
           /\ phase' = "prompt" => ActiveIds(entries') = {}]_vars

\* C24 witness: tally resume @project stopped the active entry, which was of
\* another project, and cloned an older entry of the project.
C24_Witness ==
    /\ last.op = "clone"
    /\ last.res = "stopped"
    /\ \E id \in DOMAIN entries :
          /\ entries[id].status = StatusStopped
          /\ entries[id].project # last.args[1]
          /\ entries[id].end = now
          /\ entries[id].start < now
    /\ Cardinality(ActiveIds(entries)) = 1


\* tally resume @project ends in this step, the project having entries
RanResumeProject ==
    /\ RanResume
    /\ last'.args[1] \in projects
    /\ \E i \in DOMAIN entries : entries[i].project = last'.args[1]

\* the step offers entry i for reopening and creates no entry
OffersReopen(i) ==
    /\ phase' = "prompt"
    /\ pending'.entry = i
    /\ DOMAIN entries' = DOMAIN entries

\* the step creates one running entry of the project, which has the title and
\* the tags of one of the project's latest entries, and reopens nothing
ClonesProject(project) ==
    /\ phase' = "idle"
    /\ pending' = NoPending
    /\ \A i \in DOMAIN entries : entries'[i].status = StatusStopped
    /\ \E n \in Added(entries, entries') :
          /\ Added(entries, entries') = {n}
          /\ entries'[n].project = project
          /\ entries'[n].status = StatusRunning
          /\ \E src \in DOMAIN entries :
                /\ entries[src].project = project
                /\ \A k \in DOMAIN entries : entries[k].project = project
                                                 => entries[k].start <= entries[src].start
                /\ entries'[n].title = entries[src].title
                /\ entries'[n].tags = entries[src].tags

\* C25 as stated: tally resume @project, any active entry stopped, reopens the
\* entry created last when it is of that project, and creates no entry;
\* otherwise it clones the latest entry of the project and reopens nothing.
C25_ResumeProjectLastCreated ==
    [][RanResumeProject =>
        \A i \in MostRecentlyCreated(entries) :
            IF entries[i].project = last'.args[1]
            THEN OffersReopen(i)
            ELSE ClonesProject(last'.args[1])]_vars

\* C25 amended: the entry that decides is the one with the latest start_time:
\* it is offered for reopening when it is of the project; otherwise the latest
\* entry of the project is cloned.
C25_ResumeProjectLatestStarted ==
    [][RanResumeProject =>
        \E i \in LatestStarted(entries) :
            IF entries[i].project = last'.args[1]
            THEN OffersReopen(i)
            ELSE ClonesProject(last'.args[1])]_vars

\* C25 witness: the entry created last is of the project but started before
\* an entry of another project, and tally resume @project made a clone.
C25_Witness ==
    /\ last.op = "clone"
    /\ \E n \in MostRecentlyCreated(entries) :
          /\ entries[n].status = StatusRunning
          /\ entries[n].project = last.args[1]
          /\ \E i \in DOMAIN entries \ {n} : \E j \in DOMAIN entries \ {n} :
                /\ i < j
                /\ entries[j].project = last.args[1]
                /\ entries[i].project # last.args[1]
                /\ entries[j].start < entries[i].start


\* C26: a clone-resume creates exactly one entry, with the project, the title
\* and the tags of the source entry, start_time = at and status running; it
\* adds no pause, and the source and every other entry keep their rows and
\* pauses, but for the stop of the entry that was active when the command began.
C26_CloneResume ==
    [][(phase = "run" /\ last'.op = "clone") =>
        LET src == last'.id
            at == last'.args[2]
        IN /\ \E n \in Added(entries, entries') :
                 /\ Added(entries, entries') = {n}
                 /\ entries'[n] = [project |-> entries[src].project,
                                   title |-> entries[src].title,
                                   tags |-> entries[src].tags,
                                   start |-> at, end |-> NoTime,
                                   status |-> StatusRunning]
                 /\ PausesOf(pauses', n) = {}
           /\ \A i \in DOMAIN entries :
                 entries'[i] = IF i \in ActiveIds(entries)
                               THEN [entries[i] EXCEPT !.status = StatusStopped,
                                                       !.end = now']
                               ELSE entries[i]
           /\ DOMAIN pauses' = DOMAIN pauses
           /\ \A p \in DOMAIN pauses :
                 pauses'[p] = IF /\ pauses[p].entry \in ActiveIds(entries)
                                 /\ pauses[p].resume = NoTime
                              THEN [pauses[p] EXCEPT !.resume = now']
                              ELSE pauses[p]]_vars

\* C26 witness: an entry with a title and a tag was cloned at a time after
\* its own start; the clone runs, its source is stopped.
C26_Witness ==
    /\ last.op = "clone"
    /\ entries[last.id].status = StatusStopped
    /\ entries[last.id].title # ""
    /\ entries[last.id].tags # {}
    /\ entries[last.id].start < last.args[2]
    /\ \E n \in DOMAIN entries :
          /\ entries[n].status = StatusRunning
          /\ entries[n].title = entries[last.id].title
          /\ entries[n].start = last.args[2]


\* C27 as stated: tally resume @project, when no entry of the project exists
\* (the project is unknown, or known and without entries), fails as not found
\* and leaves the store as it was; an active entry is still active.
C27_ResumeProjectNotFound ==
    [][(/\ RanResume
        /\ last'.args[1] # ""
        /\ \A i \in DOMAIN entries : entries[i].project # last'.args[1])
       => /\ last'.op = "resumeproject"
          /\ last'.res \in {"noproject", "notfound"}
          /\ entries' = entries
          /\ pauses' = pauses
          /\ projects' = projects]_vars


\* the pause items of the document the last edit read back
EditedItems(l) == l.args[1].pauses

\* the positions of the items of a document that carry an identifier, or none
ItemsWithId(items) == {k \in 1..Len(items) : items[k].id # NoId}
ItemsWithoutId(items) == {k \in 1..Len(items) : items[k].id = NoId}

\* C28 as stated: an edit that succeeds on a document whose pause items carry
\* either no identifier or the identifier of a pause of the entry leaves the
\* entry with exactly the pauses of the document: each item with an identifier
\* is that stored pause with the item's pause_time and resume_time, the stored
\* pauses the document lacks are deleted, and the items without identifier
\* are, one for one, the new pauses (closed or open).
C28_ReplaceByDiff ==
    [][(/\ EditSaved
        /\ last'.res = "ok"
        /\ \A k \in ItemsWithId(EditedItems(last')) :
              EditedItems(last')[k].id \in PausesOf(pauses, last'.id))
       => LET id == last'.id
              items == EditedItems(last')
              new == PausesOf(pauses', id) \ DOMAIN pauses
          IN /\ PausesOf(pauses', id) \cap DOMAIN pauses
                   = {items[k].id : k \in ItemsWithId(items)}
             /\ \A k \in ItemsWithId(items) :
                   /\ pauses'[items[k].id].pause = items[k].pause
                   /\ pauses'[items[k].id].resume = items[k].resume
             /\ Cardinality(new) = Cardinality(ItemsWithoutId(items))
             /\ \A k \in ItemsWithoutId(items) :
                   Cardinality({p \in new :
                                  /\ pauses'[p].pause = items[k].pause
                                  /\ pauses'[p].resume = items[k].resume})
                     = Cardinality({m \in ItemsWithoutId(items) :
                                      /\ items[m].pause = items[k].pause
                                      /\ items[m].resume = items[k].resume})]_vars


\* the items of a document whose resume_time is before their pause_time
ItemsResumedBeforePaused(items) ==
    {k \in 1..Len(items) :
        /\ items[k].pause # BadTime
        /\ items[k].resume \notin {BadTime, NoTime}
        /\ items[k].resume < items[k].pause}

\* C29 as stated: creating or updating a pause whose resume_time is before its
\* pause_time is rejected with a validation error, and no pause is stored or
\* changed.
C29_PauseOrderValidated ==
    [][(/\ EditSaved
        /\ ItemsResumedBeforePaused(EditedItems(last')) # {})
       => /\ last'.res \in {"invalid", "error"}
          /\ pauses' = pauses]_vars


\* C30 as stated: when a store write of stop fails, the entry's status and
\* end_time and every pause's resume_time are as before the command; the open
\* pause is never closed while the entry stays Running or Paused.
C30_StopAllOrNothing ==
    [][(Ran("stop") /\ last'.res = "error")
       => /\ entries' = entries
          /\ pauses' = pauses]_vars


\* C31 as stated: an edit that returns a validation error (a malformed start,
\* end or pause timestamp, end_time before start_time) has changed nothing:
\* the entry's fields and all its pauses are as before the command.
C31_EditValidatesFirst ==
    [][(/\ EditSaved
        /\ last'.res \in {"invalid", "error"})
       => /\ entries' = entries
          /\ pauses' = pauses]_vars


\* C32: a delete that succeeds removes the entry with all its pauses (the tags
\* are a field of the entry) and leaves every other entry and every pause of
\* another entry as it was; a delete that fails leaves the entry and its
\* pauses in the store.
C32_DeleteCascades ==
    [][DeleteEnded
       => /\ last'.res = "ok"
             => /\ DOMAIN entries' = DOMAIN entries \ {last'.id}
                /\ \A i \in DOMAIN entries' : entries'[i] = entries[i]
                /\ DOMAIN pauses' = DOMAIN pauses \ PausesOf(pauses, last'.id)
                /\ \A p \in DOMAIN pauses' : pauses'[p] = pauses[p]
                /\ PausesOf(pauses', last'.id) = {}
          /\ last'.res = "error"
             => /\ entries' = entries
                /\ pauses' = pauses]_vars

\* an entry that had a pause was deleted, its pause went with it, and another
\* entry and its pause are in the store
C32_Witness ==
    /\ last.op = "delete"
    /\ last.res = "ok"
    /\ last.id \notin DOMAIN entries
    /\ DOMAIN entries # {}
    /\ DOMAIN pauses # {}
    /\ \E p \in 1..pauseSeq : p \notin DOMAIN pauses


\* C33 as stated: whatever the interleaving of the statements of command
\* invocations that start, reopen or clone an entry, the store never holds
\* two entries whose status is Running or Paused.
C33_SingletonUnderInterleaving ==
    \A i \in ActiveIds(entries), j \in ActiveIds(entries) : i = j


\* C34 as stated: when reopening fails, the gap pause and the change of status
\* and end_time are both absent; the gap pause is never in the store while the
\* entry is still Stopped with its end_time.
C34_ReopenAllOrNothing ==
    [][(/\ phase = "prompt"
        /\ last'.op = "reopen"
        /\ last'.res = "error")
       => /\ entries' = entries
          /\ pauses' = pauses]_vars


\* C35 as stated: for every chronological event stream the periods the
\* pairing builds are in chronological order and do not overlap, and they are
\* the candidate intervals of the stream that last a minute or more: each
\* period ends at a gap-end that closes a gap and starts at the first
\* gap-start of that gap (later gap-starts of the gap do not move it), every
\* such interval of a minute or more is a period, and distinct periods come
\* from distinct gaps, so a gap-end with no open gap and a trailing gap-start
\* yield nothing.
C35_GapPairing ==
    last.res = "parsed" =>
        LET log == EventsSince(last.args[1], entries[last.id].start)
            periods == last.args[2]
        IN /\ \A k \in 1..Len(periods) : periods[k].sleep <= periods[k].wake
           /\ \A k \in 1..(Len(periods) - 1) : periods[k].wake <= periods[k + 1].sleep
           /\ \E f \in [1..Len(periods) -> GapClosers(log)] :
                 /\ \A k \in 1..(Len(periods) - 1) : f[k] < f[k + 1]
                 /\ \A k \in 1..Len(periods) :
                       /\ periods[k].wake = log[f[k]].time
                       /\ periods[k].sleep = log[GapOpener(log, f[k])].time
           /\ \A c \in GapClosers(log) :
                 log[c].time - log[GapOpener(log, c)].time >= Minute
                    => \E k \in 1..Len(periods) :
                          /\ periods[k].wake = log[c].time
                          /\ periods[k].sleep = log[GapOpener(log, c)].time


\* two pauses cover a common stretch of time; an open pause covers all the
\* time from its pause_time on
PausesOverlap(a, b) ==
    /\ a.resume = NoTime \/ b.pause < a.resume
    /\ b.resume = NoTime \/ a.pause < b.resume

\* tally resume has resumed, in this step, the paused entry whose power log
\* the sleep check of the same invocation had read
ResumedAfterSleepCheck ==
    /\ phase = "run"
    /\ last.op = "precheck"
    /\ last.res \in {"nosleep", "created"}
    /\ entries[last.id].status = StatusPaused
    /\ last'.op = "resume"
    /\ last'.res = "ok"
    /\ last'.id = last.id

C37_GapReconciliationIdempotent ==
    [][last'.op = "recheck"
       => /\ last'.res = "nosleep"
          /\ pauses' = pauses
          /\ entries' = entries]_vars


\* C38 as stated: an edit of one entry creates, changes and deletes no pause
\* of another entry, whatever pause identifiers the document carries.
C38_EditKeepsOtherPauses ==
    [][EditSaved
       => \A p \in DOMAIN pauses :
             pauses[p].entry # last'.id
                => /\ p \in DOMAIN pauses'
                   /\ pauses'[p] = pauses[p]]_vars


\* C39 as stated: in every reachable state each entry whose status is Paused
\* has exactly one open pause.
C39_PausedHasOneOpenPause ==
    \A i \in DOMAIN entries :
       entries[i].status = StatusPaused
          => Cardinality(OpenPausesOf(pauses, i)) = 1


\* C40: an edit never changes the status of an entry, the edited one or any
\* other, whatever status the document carries; so it leaves the set of
\* active entries as it was.
C40_EditKeepsStatus ==
    [][EditSaved
       => /\ DOMAIN entries' = DOMAIN entries
          /\ \A i \in DOMAIN entries : entries'[i].status = entries[i].status
          /\ ActiveIds(entries') = ActiveIds(entries)]_vars

\* C40 witness: an edit succeeded on a document that carries a status other
\* than the stored one, and the entry has the status it had
C40_Witness ==
    /\ last.op = "edit"
    /\ last.res = "ok"
    /\ last.args[1].status = StatusStopped
    /\ entries[last.id].status = StatusRunning

====
